---- MODULE Spec2Model ----
(***************************************************************************)
(* A model of the connection / process lifecycle and protocol layer of     *)
(* xapiand:                                                                *)
(*   - the length framing of the wire protocol (server/worker2.py),        *)
(*   - the TCP port allocator TcpPool (core.py),                           *)
(*   - the jump consistent hash used for sharding (haystack_backend.py),   *)
(*   - the retry-and-reopen policy of Database operations (core.py),       *)
(*   - the command tokens of the protocol server (server/worker2.py),      *)
(*   - the DatabasesPool checkout / release / reap cycle (core.py),        *)
(*   - the registry of spawned servers behind xapian_spawn (core.py),      *)
(*   - the subdatabases of a handle under Database.close (core.py),        *)
(*   - the client registry of CommandServer (server/worker2.py),           *)
(*   - the pool key of a checkout (core.py),                               *)
(*   - the occupancy log of the commands pool (server/worker2.py).         *)
(* Each component has its own specification over the shared variables; the *)
(* variables of the other components stay at their constructed values.     *)
(***************************************************************************)
EXTENDS Integers, Sequences, FiniteSets, TLC

VARIABLES
    \* ---- length framing (worker2.py: encode_length / decode_length)
    lenValue,       \* the integer handed to encode_length
    lenEncoded,     \* the bytes encode_length returned (sequence of 0..255)
    lenDecoded,     \* the pair <<decoded, size>> decode_length returned
    lenPc,          \* "start" | "encoded" | "decoded"
    lenReply,       \* msg_update: the database stats and the bytes sent
    \* ---- TcpPool (core.py)
    tcpUsed,        \* TcpPool.used: set of held ports
    tcpUnused,      \* TcpPool.unused: deque of released ports, left end first
    tcpPort,        \* TcpPool.port: next port to mint
    tcpLast,        \* the last call and what it saw and returned
    tcpReleased,    \* history: every port ever passed to release()
    \* ---- sharding (haystack_backend.py: consistent_hash)
    hashKey,        \* the 64-bit key, 8 bytes, least significant first
    hashBuckets,    \* num_buckets: len(self.endpoints)
    hashResult,     \* the bucket consistent_hash returned (-1: none yet)
    hashPrev,       \* the bucket returned before the last bucket was added
    hashGrowth,     \* how many buckets were added so far
    hashPc,         \* "start" | "hashed" | "grown"
    \* ---- Database retry and reopen (core.py: Database)
    dbOp,           \* the operation called on the handle
    dbCommit,       \* its commit argument
    dbPhase,        \* "main": the operation's engine call; "commit": the
                    \* self.commit() that follows it
    dbT,            \* _t of the running recursion level
    dbPc,           \* "idle" | "call" | "reopen" | "rebuild" | "done"
    dbForce,        \* the force argument of the running reopen
    dbClosed,       \* self.database._closed
    dbDocid,        \* replace: docid was assigned by replace_document
    dbOutcome,      \* how the operation ended
    dbLog,          \* history of the operation: calls, sleeps, reopens
    \* ---- Command tokens (worker2.py: AliveCommand, command, dispatch)
    cmd_id,         \* ClientReceiver.cmd_id, the connection's counter
    cmds,           \* the commands dispatched; command n captured cmd_id n
    connClosed,     \* the receive loop has ended
    \* ---- DatabasesPool (core.py: CleanablePool, DatabasesPool)
    poolNow,        \* time.time()
    poolTime,       \* CleanablePool.time
    poolKey,        \* the queue registered under the key, 0 when none
    queues,         \* every DatabasesPoolQueue made for the key
    handles,        \* every Database built: database._closed, and the
                    \* time it was put into an idle queue
    callers,        \* the callers and their checkout scopes
    cleanups,       \* the reaper's list of queues it took out
    poolPeak,       \* most handles checked out at the same time so far
    poolScopes,     \* checkout scopes entered so far
    \* ---- Spawned servers (core.py: xapian_spawn, TcpDatabase)
    srvEntry,       \* tcpservers[db]: the server stored, 0 when none
    servers,        \* every TcpDatabase built by the spawner
    spawners,       \* the callers of xapian_spawn
    srvCalls,       \* calls of xapian_spawn so far
    \* ---- Subdatabases of a handle (core.py: _xapian_database, close)
    subEndpoints,   \* database._endpoints, as endpoint keys
    subAllDatabases,\* database._all_databases, as subdatabase objects
    subRegistry,    \* the keys of database._subdatabases
    subRemoved,     \* per subdatabase: times it was popped off the registry
    subCloseCalls,  \* per subdatabase: close() calls by the cleanup loop
    subClosed,      \* database._closed
    subCloses,      \* close() calls made on the handle
    \* ---- CommandServer (worker2.py: CommandServer, ClientReceiver.handle)
    clients,        \* CommandServer.clients: the registered connections
    conns,          \* every connection: its receive loop and its socket
    serverClosed,   \* StreamServer.closed
    serverExited,   \* xapiand_run has left its last loop
    closeLast,      \* the last close() call and what it returned
    closeCalls,     \* close() calls so far
    opcodes,        \* recognized opcodes read so far
    \* ---- Pool keys (core.py: DatabasesPool.database)
    keyed,          \* the checkouts made: arguments and pool key
    \* ---- Commands pool (worker2.py: ClientReceiver.dispatch)
    tasks,          \* len(commands_pool): tasks in the pool
    submitted,      \* the last submission: occupancy read and what was logged
    \* ---- Servers and their handles (core.py: xapian_cleanup)
    lnkNow,         \* time.time() for the servers and their handles
    lnkServer,      \* the endpoint's entry in tcpservers: running, time
    lnkGen,         \* servers spawned for the endpoint so far
    lnkTcpTime,     \* tcpservers.time: when its cleanup last ran
    lnkPoolTime,    \* databases_pool.time: when its cleanup last ran
    lnkQueueTime,   \* pool_queue.time of the endpoint's queue
    lnkIdle,        \* pool_queue.unused: the server generation of each handle
    lnkOut          \* per caller: the handle checked out and where it came from

LenVars == <<lenValue, lenEncoded, lenDecoded, lenPc, lenReply>>
TcpVars == <<tcpUsed, tcpUnused, tcpPort, tcpLast, tcpReleased>>
HashVars == <<hashKey, hashBuckets, hashResult, hashPrev, hashGrowth, hashPc>>
DbVars == <<dbOp, dbCommit, dbPhase, dbT, dbPc, dbForce, dbClosed, dbDocid,
            dbOutcome, dbLog>>
CmdVars == <<cmd_id, cmds, connClosed>>
PoolVars == <<poolNow, poolTime, poolKey, queues, handles, callers, cleanups,
              poolPeak, poolScopes>>
SrvVars == <<srvEntry, servers, spawners, srvCalls>>
SubVars == <<subEndpoints, subAllDatabases, subRegistry, subRemoved,
             subCloseCalls, subClosed, subCloses>>
ConnVars == <<clients, conns, serverClosed, serverExited, closeLast,
              closeCalls, opcodes>>
KeyVars == <<keyed>>
TaskVars == <<tasks, submitted>>
LinkVars == <<lnkNow, lnkServer, lnkGen, lnkTcpTime, lnkPoolTime,
              lnkQueueTime, lnkIdle, lnkOut>>
vars == <<LenVars, TcpVars, HashVars, DbVars, CmdVars, PoolVars, SrvVars, SubVars, ConnVars, KeyVars, TaskVars, LinkVars>>

(***************************************************************************)
(* Small helpers over integers and sequences.                              *)
(***************************************************************************)
RECURSIVE BitOr(_, _)
\* Python's a | b on non-negative integers.
BitOr(a, b) ==
    IF a = 0 THEN b
    ELSE IF b = 0 THEN a
    ELSE (IF (a % 2 = 1) \/ (b % 2 = 1) THEN 1 ELSE 0)
         + 2 * BitOr(a \div 2, b \div 2)

RECURSIVE BitAnd(_, _)
\* Python's a & b on non-negative integers.
BitAnd(a, b) ==
    IF a = 0 \/ b = 0 THEN 0
    ELSE (IF (a % 2 = 1) /\ (b % 2 = 1) THEN 1 ELSE 0)
         + 2 * BitAnd(a \div 2, b \div 2)

\* Python's a << n.
ShiftLeft(a, n) == a * (2 ^ n)

\* Python's a >> n on a non-negative integer.
ShiftRight(a, n) == a \div (2 ^ n)

(***************************************************************************)
(* Length framing: encode_length and decode_length.                        *)
(***************************************************************************)
\* How far the sampled lengths reach around each boundary of the encoding.
LenSpan == 8

\* The lengths tried: around 0, around the 0xFF marker (255), around the
\* first lengths needing two (383), three (16639) and four (2097407)
\* continuation bytes, and the top of the specified range.
LengthInputs ==
    (0 .. LenSpan)
    \cup ((255 - LenSpan) .. (255 + LenSpan))
    \cup ((383 - LenSpan) .. (383 + LenSpan))
    \cup ((16639 - LenSpan) .. (16639 + LenSpan))
    \cup ((2097407 - LenSpan) .. (2097407 + LenSpan))
    \cup ((10000000 - LenSpan) .. 10000000)

RECURSIVE EncodeTail(_)
\* The while loop of encode_length: base-128 groups, least significant
\* first, the high bit set on the last one.
EncodeTail(decoded) ==
    LET b == BitAnd(decoded, 127)
        rest == ShiftRight(decoded, 7)
    IN  IF rest # 0 THEN <<b>> \o EncodeTail(rest)
        ELSE <<BitOr(b, 128)>>

\* encode_length with 255 itself taken as a single byte.
encode_length_late(decoded) ==
    IF decoded <= 255 THEN <<decoded>>
    ELSE <<255>> \o EncodeTail(decoded - 255)

encode_length(decoded) ==
    IF decoded < 255 THEN <<decoded>>
    ELSE <<255>> \o EncodeTail(decoded - 255)

RECURSIVE DecodeLoop(_, _, _, _, _)
\* The for loop of decode_length over encoded[1:], from position i.
DecodeLoop(encoded, i, decoded, shift, size) ==
    IF i > Len(encoded) THEN <<decoded, size>>
    ELSE LET ch == encoded[i]
             d2 == BitOr(decoded, ShiftLeft(BitAnd(ch, 127), shift))
         IN  IF BitAnd(ch, 128) # 0 THEN <<d2, size + 1>>
             ELSE DecodeLoop(encoded, i + 1, d2, shift + 7, size + 1)

\* decode_length returns the pair (decoded, size).  A first byte other than
\* 0xFF takes the else branch, which sets decoded to 255.
decode_length(encoded) ==
    IF encoded[1] = 255
    THEN LET r == DecodeLoop(encoded, 2, 0, 0, 1)
         IN  <<r[1] + 255, r[2]>>
    ELSE <<255, 1>>

LenIdle ==
    /\ lenValue = 0
    /\ lenEncoded = <<>>
    /\ lenDecoded = <<>>
    /\ lenPc = "start"
    /\ lenReply = <<>>

LenInit ==
    /\ lenValue \in LengthInputs
    /\ lenEncoded = <<>>
    /\ lenDecoded = <<>>
    /\ lenPc = "start"
    /\ lenReply = <<>>

\* The sender frames a length.
EncodeStep ==
    /\ lenPc = "start"
    /\ lenEncoded' = encode_length(lenValue)
    /\ lenPc' = "encoded"
    /\ UNCHANGED <<lenValue, lenDecoded, lenReply>>

\* The receiver decodes the bytes it was sent.
DecodeStep ==
    /\ lenPc = "encoded"
    /\ lenDecoded' = decode_length(lenEncoded)
    /\ lenPc' = "decoded"
    /\ UNCHANGED <<lenValue, lenEncoded, lenReply>>

\* REPLY.REPLY_UPDATE, the first of REPLY_TYPES.
REPLY_UPDATE == 0

\* send_message without the length of the message.
send_message_bare(cmd, message) == <<cmd>> \o message

\* send_message: chr(cmd) + encode_length(len(message)) + message.
send_message(cmd, message) ==
    <<cmd>> \o encode_length(Len(message)) \o message

\* The message msg_update builds for a database with stats st: the two
\* protocol version bytes (39, 0), then the stats; has_positions is sent as
\* the character '1' or '0'.
msg_update(st) ==
    <<39, 0>>
    \o encode_length(st.num_docs)
    \o encode_length(st.lastdocid - st.num_docs)
    \o encode_length(st.doclen_lb)
    \o encode_length(st.doclen_ub - st.doclen_lb)
    \o <<IF st.has_positions THEN 49 ELSE 48>>
    \o encode_length(st.total_len)
    \o st.uuid

\* msg_update on a connection whose database has the stats st.
ReplyUpdate(st) ==
    /\ lenReply = <<>>
    /\ lenReply' = <<st, send_message(REPLY_UPDATE, msg_update(st))>>
    /\ UNCHANGED <<lenValue, lenEncoded, lenDecoded, lenPc>>

(***************************************************************************)
(* TcpPool: acquire and release of server ports.                           *)
(***************************************************************************)
MIN_TCP_SERVER_PORTS == 100
TcpFirstPort == 8900

\* The most ports the model mints.
MaxMinted == 103
\* release() is tried on the first TcpReleaseWindow ports minted.
TcpReleaseWindow == 3

ReleasePorts == TcpFirstPort .. (TcpFirstPort + TcpReleaseWindow - 1)

\* deque.pop() of TcpPool.acquire: which end of the deque a port is taken
\* from (append() adds at index Len).
TcpPopIndex(unused) == Len(unused)

\* TcpMustMint without the test of the minimum: a released port is reused
\* as soon as there is one.
TcpMustMintNoMinimum(used, unused) ==
    unused = <<>>

\* The test of TcpPool.acquire that raises IndexError to mint a new port.
TcpMustMint(used, unused) ==
    Cardinality(used) < MIN_TCP_SERVER_PORTS \/ unused = <<>>

TcpInit ==
    /\ tcpUsed = {}
    /\ tcpUnused = <<>>
    /\ tcpPort = TcpFirstPort
    /\ tcpLast = [op |-> "none"]
    /\ tcpReleased = {}

\* TcpPool.acquire(), the branch that mints: port = self.port; self.port += 1.
TcpAcquireMint ==
    /\ TcpMustMint(tcpUsed, tcpUnused)
    /\ tcpPort < TcpFirstPort + MaxMinted
    /\ tcpUsed' = tcpUsed \cup {tcpPort}
    /\ tcpPort' = tcpPort + 1
    /\ tcpLast' = [op |-> "acquire", port |-> tcpPort, minted |-> TRUE,
                   held |-> Cardinality(tcpUsed), free |-> tcpUnused,
                   counter |-> tcpPort]
    /\ UNCHANGED <<tcpUnused, tcpReleased>>

\* TcpPool.acquire(), the branch that reuses: port = self.unused.pop().
TcpAcquireReuse ==
    /\ ~TcpMustMint(tcpUsed, tcpUnused)
    /\ LET i == TcpPopIndex(tcpUnused)
           port == tcpUnused[i]
       IN  /\ tcpUnused' = SubSeq(tcpUnused, 1, i - 1)
                           \o SubSeq(tcpUnused, i + 1, Len(tcpUnused))
           /\ tcpUsed' = tcpUsed \cup {port}
           /\ tcpLast' = [op |-> "acquire", port |-> port, minted |-> FALSE,
                          held |-> Cardinality(tcpUsed), free |-> tcpUnused,
                          counter |-> tcpPort]
    /\ UNCHANGED <<tcpPort, tcpReleased>>

\* release() without "self.used.discard(port)".
TcpReleaseKeepHeld(port) ==
    /\ port \in tcpUsed
    /\ tcpUnused' = Append(tcpUnused, port)
    /\ tcpReleased' = tcpReleased \cup {port}
    /\ tcpLast' = [op |-> "release", port |-> port]
    /\ UNCHANGED <<tcpUsed, tcpPort>>

\* TcpPool.release(port), called by TcpDatabase.cleanup with the port the
\* server was given by acquire().
TcpRelease(port) ==
    /\ port \in tcpUsed
    /\ tcpUsed' = tcpUsed \ {port}
    /\ tcpUnused' = Append(tcpUnused, port)
    /\ tcpReleased' = tcpReleased \cup {port}
    /\ tcpLast' = [op |-> "release", port |-> port]
    /\ UNCHANGED tcpPort

(***************************************************************************)
(* Sharding: consistent_hash (jump consistent hash).                       *)
(* A key is a 64-bit integer held as 8 bytes, least significant first (a   *)
(* key that is not an integer is first replaced by the low 64 bits of its  *)
(* md5 digest, which is again such a value).  A Python float is held as    *)
(* [bits, exp]: the integer whose binary digits are bits (most significant *)
(* first) times 2^exp; it carries at most 53 significant bits, rounded to  *)
(* nearest, ties to even, as IEEE 754 doubles are.                         *)
(***************************************************************************)
\* Bucket counts 1..MaxBuckets (and -MaxBuckets..-1) are tried for each key.
MaxBuckets == 12
\* The integer keys 0..MaxSmallKey are tried beside the fixed keys.
MaxSmallKey == 3
\* How many buckets are added, one at a time, to a bucket count.
MaxGrowth == 3

\* Significant bits of a double.
DoubleBits == 53

\* 2862933555777941757 = 0x27BB2EE687B0B0FD, least significant byte first.
HashMultiplier == <<253, 176, 176, 135, 230, 46, 187, 39>>

\* floor(log2(n)) for 1 <= n < 2^31.
Log2Floor(n) == Cardinality({k \in 1 .. 30 : 2 ^ k <= n})

\* The binary digits of n, most significant first (<<>> for 0), n < 2^31.
NatBits(n) ==
    IF n = 0 THEN <<>>
    ELSE LET len == Log2Floor(n) + 1
         IN  [i \in 1 .. len |-> (n \div (2 ^ (len - i))) % 2]

RECURSIVE BitsNat(_)
\* The integer with the binary digits bits (at most 31 of them).
BitsNat(bits) ==
    IF bits = <<>> THEN 0
    ELSE IF Len(bits) = 1 THEN bits[1]
    ELSE LET half == Len(bits) \div 2
             low == SubSeq(bits, half + 1, Len(bits))
         IN  BitsNat(SubSeq(bits, 1, half)) * (2 ^ Len(low)) + BitsNat(low)

RECURSIVE NatBytes(_, _)
\* n as count bytes, least significant first.
NatBytes(n, count) ==
    IF count = 0 THEN <<>> ELSE <<n % 256>> \o NatBytes(n \div 256, count - 1)

RECURSIVE ColumnSum(_, _, _, _)
\* The byte products a[i] * c[k - i + 1], i..k, that land in byte k.
ColumnSum(a, c, k, i) ==
    IF i > k THEN 0 ELSE a[i] * c[k - i + 1] + ColumnSum(a, c, k, i + 1)

RECURSIVE MulAddBytes(_, _, _, _)
\* Bytes k..8 of a * c + carry: the product truncated to 64 bits.
MulAddBytes(a, c, k, carry) ==
    IF k > 8 THEN <<>>
    ELSE LET t == ColumnSum(a, c, k, 1) + carry
         IN  <<t % 256>> \o MulAddBytes(a, c, k + 1, t \div 256)

\* NextKey with the "+ 1" of the recurrence left out.
NextKeyNoIncrement(key) == MulAddBytes(key, HashMultiplier, 1, 0)

\* key = ((key * 2862933555777941757) + 1) & 0xffffffffffffffff
NextKey(key) == MulAddBytes(key, HashMultiplier, 1, 1)

\* key >> 33, a value in 0 .. 2^31 - 1.
KeyShift33(key) ==
    (key[5] \div 2) + 128 * key[6] + 32768 * key[7] + 8388608 * key[8]

\* bits + 1: the lowest 0 digit becomes 1 and the digits below it 0.
IncBits(bits) ==
    LET zeros == {i \in 1 .. Len(bits) : bits[i] = 0}
    IN  IF zeros = {} THEN <<1>> \o [i \in 1 .. Len(bits) |-> 0]
        ELSE LET z == CHOOSE i \in zeros : \A k \in zeros : k <= i
             IN  [i \in 1 .. Len(bits) |->
                    IF i < z THEN bits[i] ELSE IF i = z THEN 1 ELSE 0]

\* bits (longer than DoubleBits) cut to its DoubleBits leading digits,
\* rounded to nearest, ties to even; sticky: digits beyond bits are not all 0.
RoundBits(bits, sticky) ==
    LET kept == SubSeq(bits, 1, DoubleBits)
        guard == bits[DoubleBits + 1]
        below == sticky \/ \E i \in (DoubleBits + 2) .. Len(bits) : bits[i] = 1
    IN  IF guard = 1 /\ (below \/ kept[DoubleBits] = 1)
        THEN IncBits(kept) ELSE kept

RECURSIVE DivBits(_, _, _)
\* Long division: the next n binary digits of r / d for 0 < r < d, and the
\* remainder left, as <<digits, remainder>>.
DivBits(r, d, n) ==
    IF n = 0 THEN <<<<>>, r>>
    ELSE IF n = 1
    THEN IF r >= d - r THEN <<<<1>>, r - (d - r)>> ELSE <<<<0>>, 2 * r>>
    ELSE LET first == DivBits(r, d, n \div 2)
             rest == DivBits(first[2], d, n - (n \div 2))
         IN  <<first[1] \o rest[1], rest[2]>>

\* float(1 << 31) / float(h + 1), for h = key >> 33.
FloatQuotient(h) ==
    IF h = 2147483647 THEN [bits |-> <<1>>, exp |-> 0]
    ELSE LET d == h + 1
             k == Log2Floor(d)
         IN  IF 2 ^ k = d THEN [bits |-> <<1>>, exp |-> 31 - k]
             ELSE LET q == DivBits(2 ^ k, d, DoubleBits + 1)
                  IN  [bits |-> RoundBits(q[1], q[2] # 0),
                       exp |-> (30 - k) - (DoubleBits - 1)]

\* seq back to front.
Reverse(seq) == [i \in 1 .. Len(seq) |-> seq[Len(seq) + 1 - i]]

RECURSIVE MulDigits(_, _, _, _, _)
\* Digits i..j of low (least significant first) times m, plus carry coming
\* in at digit i: <<the digits i..j of the product, the carry out of j>>.
MulDigits(low, m, i, j, carry) ==
    IF i = j
    THEN LET add == IF low[i] = 1 THEN m ELSE 0
             sum == (add % 2) + (carry % 2)
         IN  <<<<sum % 2>>, (add \div 2) + (carry \div 2) + (sum \div 2)>>
    ELSE LET mid == (i + j) \div 2
             lower == MulDigits(low, m, i, mid, carry)
             upper == MulDigits(low, m, mid + 1, j, lower[2])
         IN  <<lower[1] \o upper[1], upper[2]>>

\* float(m) * q for an integer m, 1 <= m < 2^31.
FloatTimes(m, q) ==
    LET prod == MulDigits(Reverse(q.bits), m, 1, Len(q.bits), 0)
        p == NatBits(prod[2]) \o Reverse(prod[1])
    IN  IF Len(p) <= DoubleBits THEN [bits |-> p, exp |-> q.exp]
        ELSE [bits |-> RoundBits(p, FALSE),
              exp |-> q.exp + (Len(p) - DoubleBits)]

\* The digits of the integer part of the float j.
FloorBits(j) ==
    IF j.exp >= 0 THEN j.bits \o [i \in 1 .. j.exp |-> 0]
    ELSE IF -j.exp >= Len(j.bits) THEN <<>>
         ELSE SubSeq(j.bits, 1, Len(j.bits) + j.exp)

\* j < num_buckets for a float j >= 0 and an integer num_buckets < 2^31.
FloatLess(j, num_buckets) ==
    LET f == FloorBits(j)
    IN  Len(f) <= 31 /\ BitsNat(f) < num_buckets

\* int(j)
FloatInt(j) == BitsNat(FloorBits(j))

RECURSIVE JumpLoop(_, _, _, _)
\* while j < num_buckets: b = int(j); key = ...; j = float(b + 1) * (...)
JumpLoop(key, num_buckets, b, j) ==
    IF ~FloatLess(j, num_buckets) THEN b
    ELSE LET b2 == FloatInt(j)
             key2 == NextKey(key)
         IN  JumpLoop(key2, num_buckets, b2,
                      FloatTimes(b2 + 1, FloatQuotient(KeyShift33(key2))))

\* The returned bucket off by one.
Mask32Next(b) == b + 1

\* b & 0xffffffff
Mask32(b) == IF b >= 0 THEN b ELSE (b + 2147483647) + 2147483647 + 2

\* Plain modulo sharding: the low 24 bits of the key modulo the bucket count.
ModuloHash(key, num_buckets) ==
    IF num_buckets < 1 THEN 0
    ELSE (key[1] + 256 * key[2] + 65536 * key[3]) % num_buckets

consistent_hash(key, num_buckets) ==
    IF num_buckets = 1 THEN 0
    ELSE Mask32(JumpLoop(key, IF num_buckets < 0 THEN 1 ELSE num_buckets,
                         -1, [bits |-> <<>>, exp |-> 0]))

\* 0xDEAD10CC
KeyDEAD10CC == <<204, 16, 173, 222, 0, 0, 0, 0>>
\* 0xFFFFFFFFFFFFFFFF
KeyAllOnes == <<255, 255, 255, 255, 255, 255, 255, 255>>
\* int(md5("blog.entry.1").hexdigest(), 16) & 0xffffffffffffffff = 0xC7495C1FDECB0287
KeyDigest == <<135, 2, 203, 222, 31, 92, 73, 199>>

HashKeys ==
    {NatBytes(n, 8) : n \in (0 .. MaxSmallKey) \cup {42, 256}}
    \cup {KeyDEAD10CC, KeyAllOnes, KeyDigest}

\* len(self.endpoints) is at least 1 (the backend refuses an empty
\* ENDPOINTS setting); the docstring also calls with a negative count.
BucketCounts ==
    (1 .. MaxBuckets) \cup {-n : n \in 1 .. MaxBuckets}
    \cup {57, 666, -666, 1024}

HashIdle ==
    /\ hashKey = NatBytes(0, 8)
    /\ hashBuckets = 1
    /\ hashResult = -1
    /\ hashPrev = -1
    /\ hashGrowth = 0
    /\ hashPc = "start"

HashInit ==
    /\ hashKey \in HashKeys
    /\ hashBuckets \in BucketCounts
    /\ hashResult = -1
    /\ hashPrev = -1
    /\ hashGrowth = 0
    /\ hashPc = "start"

\* XapianSearchBackend.updater picks the endpoint of a document.
HashStep ==
    /\ hashPc \in {"start", "grown"}
    /\ hashResult' = consistent_hash(hashKey, hashBuckets)
    /\ hashPc' = "hashed"
    /\ UNCHANGED <<hashKey, hashBuckets, hashPrev, hashGrowth>>

\* One endpoint is added to the ENDPOINTS setting.
AddBucket ==
    /\ hashPc = "hashed"
    /\ hashBuckets >= 1
    /\ hashGrowth < MaxGrowth
    /\ hashBuckets' = hashBuckets + 1
    /\ hashPrev' = hashResult
    /\ hashGrowth' = hashGrowth + 1
    /\ hashPc' = "grown"
    /\ UNCHANGED <<hashKey, hashResult>>

(***************************************************************************)
(* Database: the retry-and-reopen policy of the index operations.          *)
(* One handle (a Database object) is driven through a sequence of calls;   *)
(* the engine (xapian) decides nondeterministically whether a call         *)
(* returns, raises a transient error (NetworkError, DatabaseError) or      *)
(* raises InvalidArgumentError, and whether a reopen or a rebuild works.   *)
(***************************************************************************)
\* The operations that share the retry code shape of Database.replace.
DatabaseOps ==
    {"replace", "drop", "commit", "get_uuid", "get_doccount", "get_document"}

\* The operations that take commit=True and then call self.commit().
CommittingOps == {"replace", "drop"}

\* RetriesExhausted allowing one more try.
RetriesExhaustedLate(t) == t > 4

\* "if _t > 3: raise XapianError(exc)"
RetriesExhausted(t) == t > 3

\* "elif _t > 1: gevent.sleep(0.1)"
BackoffSleep(t) == t > 1

\* "self.reopen(_t > 1)": the force argument of the reopen after a failure
\* at recursion depth _t.
ForceReopen(t) == t > 1

\* The records of log with ev = kind.
Events(log, kind) == {log[i] : i \in {k \in DOMAIN log : log[k].ev = kind}}

\* The number of engine calls of phase ph recorded in log.
CallCount(log, ph) ==
    Cardinality({i \in DOMAIN log : log[i].ev = "call" /\ log[i].phase = ph})

DbInit ==
    /\ dbOp = "none"
    /\ dbCommit = FALSE
    /\ dbPhase = "main"
    /\ dbT = 0
    /\ dbPc = "idle"
    /\ dbForce = FALSE
    /\ dbClosed = FALSE
    /\ dbDocid = FALSE
    /\ dbOutcome = "none"
    /\ dbLog = <<>>

\* A caller invokes an operation on the handle (with _t = 0).
DatabaseCall(op, commit) ==
    /\ dbPc = "idle"
    /\ dbOp' = op
    /\ dbCommit' = commit
    /\ dbPhase' = "main"
    /\ dbT' = 0
    /\ dbPc' = "call"
    /\ dbDocid' = FALSE
    /\ dbOutcome' = "none"
    /\ dbLog' = <<[ev |-> "enter", closed |-> dbClosed]>>
    /\ UNCHANGED <<dbForce, dbClosed>>

\* replace / drop committing once in every frame of the recursion: a call
\* that succeeded at depth _t > 0 has a commit from an outer frame as well.
AfterMainCallEveryFrame(assigned, log) ==
    LET outer == IF dbT > 0
                 THEN Append(log, [ev |-> "call", phase |-> "commit",
                                   t |-> 0, result |-> "ok"])
                 ELSE log
    IN  IF dbOp \in CommittingOps /\ dbCommit
        THEN /\ dbPhase' = "commit"
             /\ dbT' = 0
             /\ dbPc' = "call"
             /\ dbOutcome' = dbOutcome
             /\ dbDocid' = assigned
             /\ dbLog' = outer
        ELSE /\ dbPc' = "done"
             /\ dbOutcome' = IF dbOp = "replace" /\ ~assigned
                             THEN "UnboundLocalError" ELSE "returned"
             /\ dbDocid' = assigned
             /\ dbLog' = log
             /\ UNCHANGED <<dbPhase, dbT>>

\* What follows the try block of replace / drop: "if commit: self.commit()",
\* then the return ("return docid" in replace raises UnboundLocalError when
\* replace_document never assigned docid).
AfterMainCall(assigned, log) ==
    IF dbOp \in CommittingOps /\ dbCommit
    THEN /\ dbPhase' = "commit"
         /\ dbT' = 0
         /\ dbPc' = "call"
         /\ dbOutcome' = dbOutcome
         /\ dbDocid' = assigned
         /\ dbLog' = log
    ELSE /\ dbPc' = "done"
         /\ dbOutcome' = IF dbOp = "replace" /\ ~assigned
                         THEN "UnboundLocalError" ELSE "returned"
         /\ dbDocid' = assigned
         /\ dbLog' = log
         /\ UNCHANGED <<dbPhase, dbT>>

\* The engine call of the current try returns normally (xapian raises
\* DatabaseError for a call on a database that was closed).
EngineReturns ==
    /\ dbPc = "call"
    /\ ~dbClosed
    /\ LET log == Append(dbLog, [ev |-> "call", phase |-> dbPhase,
                                 t |-> dbT, result |-> "ok"])
       IN  IF dbPhase = "main"
           THEN AfterMainCall(TRUE, log)
           ELSE /\ dbPc' = "done"
                /\ dbOutcome' = IF dbOp = "replace" /\ ~dbDocid
                                THEN "UnboundLocalError" ELSE "returned"
                /\ dbLog' = log
                /\ UNCHANGED <<dbPhase, dbT, dbDocid>>
    /\ UNCHANGED <<dbOp, dbCommit, dbForce, dbClosed>>

\* The engine call raises NetworkError or DatabaseError: raise XapianError
\* when the tries are used up, else (sleep and) reopen and try again.
EngineRaisesTransient ==
    /\ dbPc = "call"
    /\ LET called == Append(dbLog, [ev |-> "call", phase |-> dbPhase,
                                    t |-> dbT, result |-> "transient"])
           slept == IF BackoffSleep(dbT)
                    THEN Append(called, [ev |-> "sleep", phase |-> dbPhase,
                                         t |-> dbT])
                    ELSE called
       IN  IF RetriesExhausted(dbT)
           THEN /\ dbPc' = "done"
                /\ dbOutcome' = "XapianError"
                /\ dbLog' = called
                /\ UNCHANGED dbForce
           ELSE /\ dbPc' = "reopen"
                /\ dbForce' = ForceReopen(dbT)
                /\ dbLog' = slept
                /\ UNCHANGED dbOutcome
    /\ UNCHANGED <<dbOp, dbCommit, dbPhase, dbT, dbClosed, dbDocid>>

\* The engine call raises InvalidArgumentError: replace logs it and goes
\* on after its try block; every other operation lets it propagate.
EngineRaisesInvalidArgument ==
    /\ dbPc = "call"
    /\ LET log == Append(dbLog, [ev |-> "call", phase |-> dbPhase,
                                 t |-> dbT, result |-> "invalid"])
       IN  IF dbOp = "replace" /\ dbPhase = "main"
           THEN AfterMainCall(FALSE, log)
           ELSE /\ dbPc' = "done"
                /\ dbOutcome' = "InvalidArgumentError"
                /\ dbLog' = log
                /\ UNCHANGED <<dbPhase, dbT, dbDocid>>
    /\ UNCHANGED <<dbOp, dbCommit, dbForce, dbClosed>>

\* Database.reopen(force), first half: on an open database the engine's
\* own reopen() is called; when it raises, or the database is already
\* closed, force becomes True.  Without force the operation is retried;
\* with it self.close() marks the database closed before the rebuild.
SoftReopen(ok) ==
    /\ dbPc = "reopen"
    /\ dbClosed => ~ok
    /\ IF ok /\ ~dbForce
       THEN /\ dbPc' = "call"
            /\ dbT' = dbT + 1
            /\ dbLog' = Append(dbLog, [ev |-> "reopened", phase |-> dbPhase,
                                       t |-> dbT, force |-> dbForce,
                                       full |-> FALSE])
            /\ UNCHANGED dbClosed
       ELSE /\ dbPc' = "rebuild"
            /\ dbClosed' = TRUE
            /\ UNCHANGED <<dbT, dbLog>>
    /\ UNCHANGED <<dbOp, dbCommit, dbPhase, dbForce, dbDocid, dbOutcome>>

\* A reopen whose failed rebuild is taken as one more failed try.
FullReopenRetries(ok) ==
    /\ dbPc = "rebuild"
    /\ dbPc' = "call"
    /\ dbT' = dbT + 1
    /\ dbClosed' = ~ok
    /\ dbLog' = Append(dbLog, [ev |-> IF ok THEN "reopened"
                                      ELSE "rebuild_failed",
                               phase |-> dbPhase, t |-> dbT,
                               force |-> dbForce, full |-> TRUE])
    /\ UNCHANGED <<dbOp, dbCommit, dbPhase, dbForce, dbDocid, dbOutcome>>

\* Database.reopen(force), second half: _xapian_database builds the
\* subdatabases again, or raises InvalidIndexError, which leaves reopen and
\* the operation with the handle still marked closed.
FullReopen(ok) ==
    /\ dbPc = "rebuild"
    /\ IF ok
       THEN /\ dbPc' = "call"
            /\ dbT' = dbT + 1
            /\ dbClosed' = FALSE
            /\ dbLog' = Append(dbLog, [ev |-> "reopened", phase |-> dbPhase,
                                       t |-> dbT, force |-> dbForce,
                                       full |-> TRUE])
            /\ UNCHANGED dbOutcome
       ELSE /\ dbPc' = "done"
            /\ dbOutcome' = "InvalidIndexError"
            /\ dbLog' = Append(dbLog, [ev |-> "rebuild_failed",
                                       phase |-> dbPhase, t |-> dbT])
            /\ UNCHANGED <<dbT, dbClosed>>
    /\ UNCHANGED <<dbOp, dbCommit, dbPhase, dbForce, dbDocid>>

\* Database.close() called on the handle between two operations: the
\* subdatabases are closed and the database is marked closed.
DatabaseClose ==
    /\ dbPc = "idle"
    /\ ~dbClosed
    /\ dbClosed' = TRUE
    /\ UNCHANGED <<dbOp, dbCommit, dbPhase, dbT, dbPc, dbForce, dbDocid,
                   dbOutcome, dbLog>>

\* The caller has the result or the exception; the handle can be used again.
DatabaseReturn ==
    /\ dbPc = "done"
    /\ dbPc' = "idle"
    /\ UNCHANGED <<dbOp, dbCommit, dbPhase, dbT, dbForce, dbClosed, dbDocid,
                   dbOutcome, dbLog>>

(***************************************************************************)
(* ClientReceiver.dispatch and the command decorator: every dispatched     *)
(* command gets an AliveCommand token that captures the connection's       *)
(* cmd_id; heavy (threaded) handlers run in the commands pool next to the  *)
(* connection's receive loop and may test the token at their checkpoints.  *)
(***************************************************************************)
\* Bound: the commands dispatched on the connection.
MaxCommands == 3

\* The token test with the comparison lost: no command is ever dead.
TokenDeadNever(token_id, parent_id) == FALSE

\* AliveCommand.__nonzero__ raises DeadException unless
\* self.cmd_id == self.parent.cmd_id.
TokenDead(token_id, parent_id) == token_id # parent_id

\* The commands whose heavy handler is in state pc.
HeavyIn(pc) ==
    {c \in DOMAIN cmds : cmds[c].threaded /\ cmds[c].pc = pc}

CmdInit ==
    /\ cmd_id = 0
    /\ cmds = <<>>
    /\ connClosed = FALSE

\* AliveCommand.__init__ advances parent.cmd_id and captures it; the token
\* of command number n holds n.
NewCommand(threaded, pc, outcome) ==
    [threaded |-> threaded, pc |-> pc, outcome |-> outcome,
     checked |-> FALSE, checkedLate |-> FALSE, staleAtEnd |-> FALSE]

\* An except clause that takes every exception of the handler.
DispatchCatchesAll(exc) == TRUE

\* "except (IOError, RuntimeError, socket.error) as e" of dispatch.
DispatchCatches(exc) == exc \in {"IOError", "RuntimeError", "socket.error"}

\* dispatch of a lightweight handler: it runs inline on the receive loop
\* and is recorded executed, or error for IOError, RuntimeError and
\* socket.error; any other exception leaves dispatch, and handle() closes
\* the socket and ends the receive loop.
DispatchLight(exc) ==
    /\ ~connClosed
    /\ cmd_id < MaxCommands
    /\ cmd_id' = cmd_id + 1
    /\ LET result == IF exc = "none" THEN "executed"
                     ELSE IF DispatchCatches(exc) THEN "error"
                     ELSE "raised"
       IN  /\ cmds' = Append(cmds, NewCommand(FALSE, "done", result))
           /\ connClosed' = (result = "raised")

\* self.read(1) raises, or the byte read indexes no handler
\* (InvalidCommand): handle() closes the socket and the loop has ended.
ReadError ==
    /\ ~connClosed
    /\ connClosed' = TRUE
    /\ UNCHANGED <<cmd_id, cmds>>

\* dispatch of a heavy handler: commands_pool.spawn(func, command, ...).
DispatchHeavy ==
    /\ ~connClosed
    /\ cmd_id < MaxCommands
    /\ cmd_id' = cmd_id + 1
    /\ cmds' = Append(cmds, NewCommand(TRUE, "spawned", "none"))
    /\ UNCHANGED connClosed

\* The pool starts the wrapped handler of command c.
HandlerStart(c) ==
    /\ c \in HeavyIn("spawned")
    /\ cmds' = [cmds EXCEPT ![c].pc = "running"]
    /\ UNCHANGED <<cmd_id, connClosed>>

\* The handler reaches a checkpoint and tests its token: DeadException
\* leaves the handler and the wrapper records the command as cancelled.
HandlerCheck(c) ==
    /\ c \in HeavyIn("running")
    /\ IF TokenDead(c, cmd_id)
       THEN cmds' = [cmds EXCEPT ![c].pc = "done",
                                 ![c].outcome = "cancelled",
                                 ![c].checkedLate = TRUE,
                                 ![c].staleAtEnd = (cmd_id > c)]
       ELSE cmds' = [cmds EXCEPT ![c].checked = TRUE,
                                 ![c].checkedLate = (cmd_id > c)]
    /\ UNCHANGED <<cmd_id, connClosed>>

\* The handler returns: command.executed(func(self, *args, **kwargs)).
HandlerReturn(c) ==
    /\ c \in HeavyIn("running")
    /\ cmds' = [cmds EXCEPT ![c].pc = "done",
                            ![c].outcome = "executed",
                            ![c].staleAtEnd = (cmd_id > c)]
    /\ UNCHANGED <<cmd_id, connClosed>>

\* The handler raises: IOError, RuntimeError and socket.error are recorded
\* with command.error(e); any other exception leaves the wrapper with no
\* outcome recorded.
HandlerRaise(c, result) ==
    /\ c \in HeavyIn("running")
    /\ cmds' = [cmds EXCEPT ![c].pc = "done",
                            ![c].outcome = result,
                            ![c].staleAtEnd = (cmd_id > c)]
    /\ UNCHANGED <<cmd_id, connClosed>>

(***************************************************************************)
(* DatabasesPool: scoped checkout of Database handles for one pool key,    *)
(* and the reaper (CleanablePool.cleanup).  A caller runs                  *)
(*     with databases_pool.database(endpoints, writable) as db: body       *)
(* The lock regions of the code are single steps; building a new Database, *)
(* the optional reopen and the body run outside the locks.                 *)
(***************************************************************************)
\* Bounds: callers of the pool, checkout scopes entered by all of them,
\* clock ticks, queues ever registered for the key, and the timeout the
\* reaper passes.
NumCallers == 2
MaxScopes == 3
MaxClock == 2
MaxQueues == 2
ReapTimeout == 1
\* Bound: the callers of the specification that fills the idle queue.
CapCallers == 11

\* The 10 of "if len(pool_queue.unused) < 10".
IdleCap == 10

\* A deque pop that leaves the handle in the idle queue.
PopRestKeep(unused) == unused

\* pool_queue.unused.pop(): the deque after its right end was taken.
PopRest(unused) == SubSeq(unused, 1, Len(unused) - 1)

\* CleanableObject.__init__ and DatabasesPoolQueue.__init__ at time now.
NewQueue(now) == [unused |-> <<>>, used |-> {}, time |-> now, cleaned |-> FALSE]

\* A caller outside any checkout scope.
IdleCaller ==
    [pc |-> "idle", queue |-> 0, database |-> 0, new |-> FALSE,
     reopen |-> FALSE]

\* The callers that hold a handle: from the checkout to the release.
Holders ==
    {c \in DOMAIN callers : callers[c].pc \in {"reopen", "body", "exit"}}

\* The largest number of handles checked out at the same time so far.
PeakAfter(held) == IF held > poolPeak THEN held ELSE poolPeak

PoolInit(n) ==
    /\ poolNow = 0
    /\ poolTime = 0
    /\ poolKey = 0
    /\ queues = <<>>
    /\ handles = <<>>
    /\ callers = [c \in 1..n |-> IdleCaller]
    /\ cleanups = <<>>
    /\ poolScopes = 0
    /\ poolPeak = 0

\* DatabasesPool.database up to the end of its lock region: setdefault of
\* the key's queue, pop of an idle handle into the used set or new = True,
\* and the queue's time stamp.
Checkout(c, reopen) ==
    /\ callers[c].pc = "idle"
    /\ poolKey = 0 => Len(queues) < MaxQueues
    /\ LET registered == IF poolKey = 0
                         THEN Append(queues, NewQueue(poolNow))
                         ELSE queues
           q == IF poolKey = 0 THEN Len(queues) + 1 ELSE poolKey
           unused == registered[q].unused
           new == unused = <<>>
           database == IF new THEN 0 ELSE unused[Len(unused)]
       IN  /\ poolKey' = q
           /\ queues' =
                IF new
                THEN [registered EXCEPT ![q].time = poolNow]
                ELSE [registered EXCEPT
                        ![q].unused = PopRest(unused),
                        ![q].used = registered[q].used \cup {database},
                        ![q].time = poolNow]
           /\ callers' = [callers EXCEPT ![c] =
                [pc |-> IF new THEN "construct"
                        ELSE IF reopen THEN "reopen" ELSE "body",
                 queue |-> q, database |-> database, new |-> new,
                 reopen |-> new /\ reopen]]
           /\ poolScopes' = poolScopes + 1
           /\ poolPeak' = IF new THEN poolPeak
                          ELSE PeakAfter(Cardinality(Holders) + 1)
           /\ handles' = IF new THEN handles
                         ELSE [handles EXCEPT ![database].since = 0]
    /\ UNCHANGED <<poolNow, poolTime, cleanups>>

\* "database = Database(...); pool_queue.used.add(database)" outside the
\* locks; when the constructor raises, database is still None and the
\* finally block only stamps the queue.
Construct(c, ok) ==
    /\ callers[c].pc = "construct"
    /\ LET q == callers[c].queue
           database == Len(handles) + 1
       IN  IF ok
           THEN /\ handles' = Append(handles, [closed |-> FALSE, since |-> 0])
                /\ queues' = [queues EXCEPT
                                ![q].used = queues[q].used \cup {database}]
                /\ callers' = [callers EXCEPT
                     ![c].pc = IF callers[c].reopen THEN "reopen" ELSE "body",
                     ![c].database = database,
                     ![c].reopen = FALSE]
                /\ poolPeak' = PeakAfter(Cardinality(Holders) + 1)
           ELSE /\ queues' = [queues EXCEPT ![q].time = poolNow]
                /\ callers' = [callers EXCEPT
                                 ![c] = IdleCaller]
                /\ UNCHANGED <<handles, poolPeak>>
    /\ UNCHANGED <<poolNow, poolTime, poolKey, cleanups, poolScopes>>

\* "if reopen: database.reopen()": the handle is open afterwards, or the
\* rebuild raised and the handle stays closed while the exception leaves
\* the scope through the finally block.
CheckoutReopen(c, result) ==
    /\ callers[c].pc = "reopen"
    /\ LET database == callers[c].database
       IN  CASE result = "refreshed" ->
                  /\ ~handles[database].closed
                  /\ callers' = [callers EXCEPT ![c].pc = "body"]
                  /\ UNCHANGED handles
             [] result = "rebuilt" ->
                  /\ callers' = [callers EXCEPT ![c].pc = "body"]
                  /\ handles' = [handles EXCEPT ![database].closed = FALSE]
             [] result = "failed" ->
                  /\ callers' = [callers EXCEPT ![c].pc = "exit"]
                  /\ handles' = [handles EXCEPT ![database].closed = TRUE]
    /\ UNCHANGED <<poolNow, poolTime, poolKey, queues, cleanups, poolPeak,
                   poolScopes>>

\* The body of the scope leaves the handle closed (a reopen inside one of
\* its operations could not rebuild the subdatabases, or it called close).
BodyClose(c) ==
    /\ callers[c].pc = "body"
    /\ ~handles[callers[c].database].closed
    /\ handles' = [handles EXCEPT ![callers[c].database].closed = TRUE]
    /\ UNCHANGED <<poolNow, poolTime, poolKey, queues, callers, cleanups,
                   poolPeak, poolScopes>>

\* The room test taken one handle too far.
IdleHasRoomAtCap(unused) == Len(unused) <= IdleCap

\* "if len(pool_queue.unused) < 10"
IdleHasRoom(unused) == Len(unused) < IdleCap

\* The finally block without "if not database.database._closed": a closed
\* handle goes back to the idle queue as well.
ReleaseClosedToo(c) ==
    /\ callers[c].pc \in {"body", "exit"}
    /\ LET q == callers[c].queue
           database == callers[c].database
           room == IdleHasRoom(queues[q].unused)
       IN  /\ queues' = [queues EXCEPT
                ![q].used = queues[q].used \ {database},
                ![q].unused =
                    IF room THEN Append(queues[q].unused, database)
                    ELSE queues[q].unused,
                ![q].time = poolNow]
           /\ handles' =
                IF room
                THEN IF handles[database].closed THEN handles
                     ELSE [handles EXCEPT ![database].since = poolNow]
                ELSE [handles EXCEPT ![database].closed = TRUE]
    /\ callers' = [callers EXCEPT ![c] = IdleCaller]
    /\ UNCHANGED <<poolNow, poolTime, poolKey, cleanups, poolPeak, poolScopes>>

\* The finally block of the scope, under the queue's lock: the handle
\* leaves the used set and goes back to the idle queue when that has room
\* and the handle is open; without room it is closed.
Release(c) ==
    /\ callers[c].pc \in {"body", "exit"}
    /\ LET q == callers[c].queue
           database == callers[c].database
           room == IdleHasRoom(queues[q].unused)
       IN  /\ queues' = [queues EXCEPT
                ![q].used = queues[q].used \ {database},
                ![q].unused =
                    IF room /\ ~handles[database].closed
                    THEN Append(queues[q].unused, database)
                    ELSE queues[q].unused,
                ![q].time = poolNow]
           /\ handles' =
                IF room
                THEN IF handles[database].closed THEN handles
                     ELSE [handles EXCEPT ![database].since = poolNow]
                ELSE [handles EXCEPT ![database].closed = TRUE]
    /\ callers' = [callers EXCEPT ![c] = IdleCaller]
    /\ UNCHANGED <<poolNow, poolTime, poolKey, cleanups, poolPeak, poolScopes>>

\* time.time() moves on.
Tick ==
    /\ poolNow < MaxClock
    /\ poolNow' = poolNow + 1
    /\ UNCHANGED <<poolTime, poolKey, queues, handles, callers, cleanups,
                   poolPeak, poolScopes>>

\* CleanablePool.cleanup(timeout) through its lock region: a queue with an
\* empty used set and an old time stamp leaves the pool and is kept for
\* the cleanup that follows.
ReapSelect(timeout) ==
    /\ cleanups = <<>>
    /\ poolNow - poolTime >= timeout
    /\ IF /\ poolKey # 0
          /\ queues[poolKey].used = {}
          /\ poolNow - queues[poolKey].time > timeout
       THEN /\ cleanups' = <<poolKey>>
            /\ poolKey' = 0
       ELSE UNCHANGED <<cleanups, poolKey>>
    /\ poolTime' = poolNow
    /\ UNCHANGED <<poolNow, queues, handles, callers, poolPeak, poolScopes>>

\* A cleanup that closes the handles in use as well.
CleanupTargetsAll(unused, used) ==
    {unused[i] : i \in DOMAIN unused} \cup used

\* "for database in self.unused: database.close()"
CleanupTargets(unused, used) == {unused[i] : i \in DOMAIN unused}

\* DatabasesPoolQueue.cleanup of a queue taken out of the pool: close each
\* idle handle (they stay in the deque) and mark the queue cleaned.
ReapCleanup ==
    /\ cleanups # <<>>
    /\ LET q == Head(cleanups)
           targets == CleanupTargets(queues[q].unused, queues[q].used)
       IN  /\ handles' = IF queues[q].cleaned THEN handles
                         ELSE [h \in DOMAIN handles |->
                                 IF h \in targets
                                 THEN [handles[h] EXCEPT !.closed = TRUE]
                                 ELSE handles[h]]
           /\ queues' = [queues EXCEPT ![q].cleaned = TRUE]
    /\ cleanups' = Tail(cleanups)
    /\ UNCHANGED <<poolNow, poolTime, poolKey, callers, poolPeak, poolScopes>>

\* The lowest caller at position pc: callers at the same position are
\* interchangeable, and so are the handles they hold.
First(c, pcs) ==
    /\ callers[c].pc \in pcs
    /\ \A d \in DOMAIN callers : callers[d].pc \in pcs => c <= d

(***************************************************************************)
(* xapian_spawn: the registry of spawned xapian-tcpsrv servers for one     *)
(* endpoint.  tcpservers (a TcpPool) maps the endpoint to a TcpDatabase;   *)
(* the lookup runs under the registry lock, the spawn outside it.          *)
(***************************************************************************)
\* Bounds: concurrent callers of xapian_spawn, and calls made by them all.
NumSpawners == 2
MaxSpawnCalls == 2
\* Bound: connect attempts that a started server may refuse.
MaxRefused == 5

\* _xapian_spawn: max_retries of the connect poll.
SpawnMaxRetries == 4

\* The connect poll of _xapian_spawn, "while retries <= max_retries": it
\* ends connected when an attempt succeeds, which takes that fewer than
\* max_retries + 1 attempts were refused.
PollConnects(refused) == refused <= SpawnMaxRetries

\* cleanup() without its cleaned test.
CleanupDueAlways(cleaned) == TRUE

\* TcpDatabase.cleanup: "if not self.cleaned".
CleanupDue(cleaned) == ~cleaned

\* TcpDatabase.active for a server with a process: the process exists and
\* the server was touched less than DATABASE_SHORT_LIFE ago.
Active(o) == servers[o].alive /\ ~servers[o].expired

\* A caller outside xapian_spawn.
IdleSpawner ==
    [pc |-> "idle", port |-> 0, server |-> 0, stored |-> 0,
     launch |-> "none", outcome |-> "none"]

\* TcpDatabase(db, process, (hostname, port)) of a process just started.
NewServer(port) ==
    [port |-> port, alive |-> TRUE, expired |-> FALSE, cleaned |-> FALSE,
     finalized |-> FALSE, kills |-> 0, releases |-> 0, cleanups |-> 0]

SrvInit ==
    /\ srvEntry = 0
    /\ servers = <<>>
    /\ spawners = [s \in 1..NumSpawners |-> IdleSpawner]
    /\ srvCalls = 0

\* xapian_spawn, the lookup under tcpservers.lock: a live entry is used,
\* a missing or inactive one raises KeyError.
SpawnLookup(s) ==
    /\ spawners[s].pc = "idle"
    /\ srvCalls < MaxSpawnCalls
    /\ srvCalls' = srvCalls + 1
    /\ spawners' = [spawners EXCEPT ![s] =
         IF srvEntry # 0 /\ Active(srvEntry)
         THEN [IdleSpawner EXCEPT !.pc = "return", !.server = srvEntry]
         ELSE [IdleSpawner EXCEPT !.pc = "acquire"]]
    /\ UNCHANGED <<srvEntry, servers, TcpVars>>

\* _xapian_spawner: port = tcpservers.acquire().
SpawnAcquire(s) ==
    /\ spawners[s].pc = "acquire"
    /\ TcpAcquireMint \/ TcpAcquireReuse
    /\ spawners' = [spawners EXCEPT ![s].pc = "launch",
                                    ![s].port = tcpLast'.port]
    /\ UNCHANGED <<srvEntry, servers, srvCalls>>

\* _xapian_spawn starts the process and polls a connect to it; whether or
\* not the poll ends connected it returns the process, the TcpDatabase is
\* built and
\* tcpservers.setdefault(db, server) stores it unless the endpoint has an
\* entry; or _xapian_spawn raises, and the except branch falls back on a
\* live entry of the registry or raises InvalidIndexError.
SpawnLaunch(s, ok, refused) ==
    /\ spawners[s].pc = "launch"
    /\ IF ok
       THEN /\ servers' = Append(servers, NewServer(spawners[s].port))
            /\ srvEntry' = IF srvEntry = 0 THEN Len(servers) + 1 ELSE srvEntry
            /\ spawners' = [spawners EXCEPT
                 ![s].pc = "return",
                 ![s].server = Len(servers) + 1,
                 ![s].launch = IF PollConnects(refused) THEN "connected"
                               ELSE "unreachable"]
       ELSE /\ spawners' = [spawners EXCEPT ![s] =
                 IF srvEntry # 0 /\ Active(srvEntry)
                 THEN [@ EXCEPT !.pc = "return", !.server = srvEntry,
                                !.launch = "failed"]
                 ELSE [@ EXCEPT !.pc = "done", !.launch = "failed",
                                !.outcome = "InvalidIndexError"]]
            /\ UNCHANGED <<srvEntry, servers>>
    /\ UNCHANGED <<srvCalls, TcpVars>>

\* "if server.process: server.time = time.time()" and
\* "return server.time, server.address".
SpawnReturn(s) ==
    /\ spawners[s].pc = "return"
    /\ servers' = [servers EXCEPT ![spawners[s].server].expired = FALSE]
    /\ spawners' = [spawners EXCEPT ![s].pc = "done",
                                    ![s].outcome = "returned",
                                    ![s].stored = srvEntry]
    /\ UNCHANGED <<srvEntry, srvCalls, TcpVars>>

\* The caller goes on; its reference to the server is gone.
SpawnDone(s) ==
    /\ spawners[s].pc = "done"
    /\ spawners' = [spawners EXCEPT ![s] = IdleSpawner]
    /\ UNCHANGED <<srvEntry, servers, srvCalls, TcpVars>>

\* The server's process exits: pid_exists(process.pid) turns false.
ProcessExits(o) ==
    /\ o \in DOMAIN servers
    /\ servers[o].alive
    /\ servers' = [servers EXCEPT ![o].alive = FALSE]
    /\ UNCHANGED <<srvEntry, spawners, srvCalls, TcpVars>>

\* More than DATABASE_SHORT_LIFE passes since the server was touched.
ServerAges(o) ==
    /\ o \in DOMAIN servers
    /\ ~servers[o].expired
    /\ servers' = [servers EXCEPT ![o].expired = TRUE]
    /\ UNCHANGED <<srvEntry, spawners, srvCalls, TcpVars>>

\* TcpDatabase.cleanup(): kill the process, release the port, mark cleaned
\* (kills, releases and cleanups count what was done to the server).
ServerCleanup(o) ==
    IF CleanupDue(servers[o].cleaned)
    THEN /\ servers' = [servers EXCEPT ![o].alive = FALSE,
                                       ![o].kills = @ + 1,
                                       ![o].releases = @ + 1,
                                       ![o].cleanups = @ + 1,
                                       ![o].cleaned = TRUE]
         /\ tcpUsed' = tcpUsed \ {servers[o].port}
         /\ tcpUnused' = Append(tcpUnused, servers[o].port)
         /\ tcpReleased' = tcpReleased \cup {servers[o].port}
         /\ tcpLast' = [op |-> "release", port |-> servers[o].port]
         /\ UNCHANGED tcpPort
    ELSE /\ servers' = [servers EXCEPT ![o].cleanups = @ + 1]
         /\ UNCHANGED TcpVars

\* tcpservers.cleanup(timeout): the entry is older than timeout (its used
\* attribute is never set), so it is deleted under the lock and cleaned up.
ServerReap ==
    /\ srvEntry # 0
    /\ srvEntry' = 0
    /\ ServerCleanup(srvEntry)
    /\ UNCHANGED <<spawners, srvCalls>>

\* CleanableObject.__del__: a server that neither the registry nor a
\* caller refers to is finalized, which calls cleanup().
ServerFinalize(o) ==
    /\ o \in DOMAIN servers
    /\ ~servers[o].finalized
    /\ o # srvEntry
    /\ \A s \in DOMAIN spawners : spawners[s].server # o
    /\ IF CleanupDue(servers[o].cleaned)
       THEN /\ servers' = [servers EXCEPT ![o].alive = FALSE,
                                          ![o].kills = @ + 1,
                                          ![o].releases = @ + 1,
                                          ![o].cleanups = @ + 1,
                                          ![o].cleaned = TRUE,
                                          ![o].finalized = TRUE]
            /\ tcpUsed' = tcpUsed \ {servers[o].port}
            /\ tcpUnused' = Append(tcpUnused, servers[o].port)
            /\ tcpReleased' = tcpReleased \cup {servers[o].port}
            /\ tcpLast' = [op |-> "release", port |-> servers[o].port]
            /\ UNCHANGED tcpPort
       ELSE /\ servers' = [servers EXCEPT ![o].cleanups = @ + 1,
                                          ![o].finalized = TRUE]
            /\ UNCHANGED TcpVars
    /\ UNCHANGED <<srvEntry, spawners, srvCalls>>

(***************************************************************************)
(* Database.close: the subdatabases of one handle.  _xapian_database keeps *)
(* one entry of _all_databases per listed endpoint and one registry entry  *)
(* (_subdatabases) per endpoint key; close() walks _all_databases.         *)
(***************************************************************************)
\* Bounds: endpoints listed for a handle, distinct endpoint keys, and
\* close() calls made on the handle.
MaxEndpoints == 3
NumEndpointKeys == 3
MaxCloses == 2

\* The endpoint lists a handle is opened with (keys as numbers).
EndpointLists ==
    UNION {[1..n -> 1..NumEndpointKeys] : n \in 1..MaxEndpoints}

\* list.index(x): the first position holding x.
FirstIndex(seq, x) ==
    CHOOSE j \in DOMAIN seq : seq[j] = x /\ \A k \in 1..(j - 1) : seq[k] # x

\* _xapian_database: the subdatabase of each endpoint comes from
\* _xapian_subdatabase, which returns the registry's object for a key seen
\* before and opens a new one otherwise.  An object is named by the first
\* position of its key.
SubInit(endpoints) ==
    /\ subEndpoints = endpoints
    /\ subAllDatabases =
          [i \in DOMAIN endpoints |-> FirstIndex(endpoints, endpoints[i])]
    /\ subRegistry = {endpoints[i] : i \in DOMAIN endpoints}
    /\ subRemoved = [i \in DOMAIN endpoints |-> 0]
    /\ subCloseCalls = [i \in DOMAIN endpoints |-> 0]
    /\ subClosed = FALSE
    /\ subCloses = 0

\* The subdatabases cleanup loop of Database.close from position i on:
\* index() of the subdatabase finds its configuration and key, the key is
\* popped from the registry, and the subdatabase is closed.
RECURSIVE CloseLoop(_, _)
CloseLoop(i, st) ==
    IF i > Len(subAllDatabases) THEN st
    ELSE LET subdatabase == subAllDatabases[i]
             subdatabase_number == FirstIndex(subAllDatabases, subdatabase)
             key == subEndpoints[subdatabase_number]
         IN  CloseLoop(i + 1,
               [registry |-> st.registry \ {key},
                removed |-> IF key \in st.registry
                            THEN [st.removed EXCEPT ![subdatabase] = @ + 1]
                            ELSE st.removed,
                calls |-> [st.calls EXCEPT ![subdatabase] = @ + 1]])

\* Database.close(): nothing for a closed database; otherwise the cleanup
\* loop runs and the database is marked closed.  (The pop of the key
\* (writable, endpoints) finds nothing: only subdatabase keys are stored.)
SubClose ==
    /\ subCloses < MaxCloses
    /\ subCloses' = subCloses + 1
    /\ IF subClosed
       THEN UNCHANGED <<subRegistry, subRemoved, subCloseCalls, subClosed>>
       ELSE LET st == CloseLoop(1, [registry |-> subRegistry,
                                    removed |-> subRemoved,
                                    calls |-> subCloseCalls])
            IN  /\ subRegistry' = st.registry
                /\ subRemoved' = st.removed
                /\ subCloseCalls' = st.calls
                /\ subClosed' = TRUE
    /\ UNCHANGED <<subEndpoints, subAllDatabases>>

(***************************************************************************)
(* CommandServer: the client registry and the receive loops of the         *)
(* connections.  Every connection runs CommandServer.handle on a greenlet  *)
(* of its own; greenlets switch only at blocking calls, so what a handler  *)
(* does between two reads of the socket is one step.                       *)
(***************************************************************************)
\* Bounds: connections made to the server, recognized opcodes read on all
\* of them together, and close() calls on the server.
NumClients == 3
MaxOpcodes == 2
MaxServerCloses == 2

\* len(MESSAGE_TYPES): the opcodes 0..30 index a handler.
NumMessageTypes == 31

ConnInit ==
    /\ clients = {}
    /\ conns = [c \in 1..NumClients |->
                  [pc |-> "none", sock |-> "none", cause |-> "none"]]
    /\ serverClosed = FALSE
    /\ serverExited = FALSE
    /\ closeLast = [max_age |-> "none", wasClosed |-> FALSE,
                    result |-> "none"]
    /\ closeCalls = 0
    /\ opcodes = 0

\* Every socket closed, whatever set was asked for.
CloseSocketsAll(cs, which) ==
    [d \in DOMAIN cs |-> [cs[d] EXCEPT !.sock = "closed"]]

\* client.client_socket._sock.close() for the connections in which.
CloseSockets(cs, which) ==
    [d \in DOMAIN cs |->
        IF d \in which THEN [cs[d] EXCEPT !.sock = "closed"] ELSE cs[d]]

\* The receive loop of connection c has ended for cause: ClientReceiver.handle
\* closes the socket in its except clause and returns, and the finally of
\* CommandServer.handle discards the client from the registry.
LoopEnds(c, cause) ==
    /\ conns' = [CloseSockets(conns, {c}) EXCEPT ![c].pc = "ended",
                                                 ![c].cause = cause]
    /\ clients' = clients \ {c}

\* CommandServer.handle up to the receive loop: the client is built and
\* added to the registry, and connectionMade sends the first reply.  When
\* connectionMade raises, handle is left before its try statement.
Accept(c, made) ==
    /\ ~serverClosed
    /\ conns[c].pc = "none"
    /\ clients' = clients \cup {c}
    /\ conns' = [conns EXCEPT ![c] =
         IF made THEN [pc |-> "loop", sock |-> "open", cause |-> "none"]
         ELSE [pc |-> "ended", sock |-> "open", cause |-> "connectionMade"]]
    /\ UNCHANGED <<serverClosed, serverExited, closeLast, closeCalls,
                   opcodes>>

\* The receive loop reads one byte: message_type[ord(byte)] finds the
\* handler and dispatches it, or raises IndexError, taken as InvalidCommand.
ReadOpcode(c, byte) ==
    /\ conns[c].pc = "loop"
    /\ conns[c].sock = "open"
    /\ IF byte < NumMessageTypes
       THEN /\ opcodes < MaxOpcodes
            /\ opcodes' = opcodes + 1
            /\ UNCHANGED <<clients, conns>>
       ELSE /\ LoopEnds(c, "InvalidCommand")
            /\ UNCHANGED opcodes
    /\ UNCHANGED <<serverClosed, serverExited, closeLast, closeCalls>>

\* The read or a handler raises any other exception (the peer is gone, the
\* socket was closed under the loop, ...).
ReadRaises(c) ==
    /\ conns[c].pc = "loop"
    /\ LoopEnds(c, "Exception")
    /\ UNCHANGED <<serverClosed, serverExited, closeLast, closeCalls,
                   opcodes>>

\* The test of close() with the "max_age is None" operand lost.
CloseSelectsAged(max_age) == "AttributeError"

\* "max_age is None or client.weak_client or now - client.activity >
\* max_age" for a client: weak_client is False for every ClientReceiver and
\* no ClientReceiver has an activity attribute, so the last operand raises
\* AttributeError when it is reached.
CloseSelects(max_age) ==
    IF max_age = "none" THEN "clean" ELSE "AttributeError"

\* CommandServer.close(max_age): on an open server the listener is closed
\* and a missing max_age becomes 10; then the selected clients have their
\* sockets closed and are discarded, and the result is "not
\* bool(self.clients)".  xapiand_run registers close as the handler of
\* SIGTERM and SIGINT (no max_age) and, once the server is closed, calls
\* close(max_age=10) from its last loop, which it leaves when close returns
\* True.
ServerClose(max_age) ==
    /\ ~serverExited
    /\ closeCalls < MaxServerCloses
    /\ max_age = "ten" => serverClosed
    /\ closeCalls' = closeCalls + 1
    /\ serverClosed' = TRUE
    /\ LET age == IF serverClosed THEN max_age ELSE "ten"
           result == IF clients = {} THEN "true"
                     ELSE IF CloseSelects(age) = "clean" THEN "true"
                     ELSE "AttributeError"
       IN  /\ closeLast' = [max_age |-> max_age, wasClosed |-> serverClosed,
                            result |-> result]
           /\ IF result = "true"
              THEN /\ conns' = CloseSockets(conns, clients)
                   /\ clients' = {}
              ELSE UNCHANGED <<clients, conns>>
    /\ serverExited' = (max_age = "ten")
    /\ UNCHANGED opcodes

(***************************************************************************)
(* DatabasesPool.database: the key under which a checkout looks up its     *)
(* pool queue.                                                             *)
(***************************************************************************)
\* Bounds: endpoints listed by a checkout, and checkouts whose key is taken.
MaxKeyEndpoints == 2
MaxKeyed == 2

\* "(writable, endpoints)" with "endpoints = tuple(build_url(*parse_url(
\* db.strip())) for db in endpoints)": each endpoint is normalized, in the
\* order given.  An endpoint has two spellings here, e and e +
\* NumEndpointKeys, with the same normal form.
PoolKey(writable, endpoints) ==
    <<writable,
      [i \in DOMAIN endpoints |-> ((endpoints[i] - 1) % NumEndpointKeys) + 1]>>

\* A checkout computes its key and registers or finds the queue under it.
CheckoutKey(writable, endpoints) ==
    /\ Len(keyed) < MaxKeyed
    /\ keyed' = Append(keyed, [writable |-> writable, endpoints |-> endpoints,
                               key |-> PoolKey(writable, endpoints)])

(***************************************************************************)
(* ClientReceiver.dispatch of a heavy command: the server's commands pool. *)
(***************************************************************************)
\* CommandServer.pool_size.
COMMANDS_POOL_SIZE == 100

\* What dispatch logs for pool_used tasks in the pool after the submission:
\* "if pool_used >= pool_size_warning: warning; elif pool_used == pool_size:
\* error", with pool_size_warning = int(pool_size / 3.0 * 2.0).
PoolLog(pool_used) ==
    LET pool_size_warning == (COMMANDS_POOL_SIZE * 2) \div 3
    IN  IF pool_used >= pool_size_warning THEN "warning"
        ELSE IF pool_used = COMMANDS_POOL_SIZE THEN "error"
        ELSE "none"

\* dispatch of a heavy command: commands_pool.spawn(...) takes a slot of
\* the pool (it waits for one when the pool is full), then the occupancy is
\* read and logged.
SubmitHeavy ==
    /\ tasks < COMMANDS_POOL_SIZE
    /\ tasks' = tasks + 1
    /\ submitted' = [pool_used |-> tasks + 1, logged |-> PoolLog(tasks + 1)]

\* A task of the pool ends and frees its slot.
TaskEnds ==
    /\ tasks > 0
    /\ tasks' = tasks - 1
    /\ UNCHANGED submitted

(***************************************************************************)
(* Spawned servers and the handles connected to them: one endpoint, its    *)
(* entry in tcpservers, and the pool queue of the handles opened on it.    *)
(* A handle is named by the generation of the server it is connected to.   *)
(***************************************************************************)
\* The most servers spawned for the endpoint.
MaxLinkSpawns == 2

\* DatabasesPool.database up to the yield: a handle is popped from the idle
\* deque or a new Database is built; a new Database, and a reopen() whose
\* engine reopen fails because the handle's server is gone, go through
\* _xapian_database, which sets server.time of the endpoint's entry or
\* spawns a server for an endpoint without one.
LinkCheckout(c, reopen) ==
    /\ lnkOut[c].gen = 0
    /\ LET popped == lnkIdle # <<>>
           h == IF popped THEN lnkIdle[Len(lnkIdle)] ELSE 0
           rebuild == \/ ~popped
                      \/ reopen /\ ~(lnkServer.running /\ h = lnkGen)
           spawn == rebuild /\ ~lnkServer.running
       IN  /\ spawn => lnkGen < MaxLinkSpawns
           /\ lnkGen' = IF spawn THEN lnkGen + 1 ELSE lnkGen
           /\ lnkServer' = IF rebuild
                           THEN [running |-> TRUE, time |-> lnkNow]
                           ELSE lnkServer
           /\ lnkIdle' = IF popped THEN SubSeq(lnkIdle, 1, Len(lnkIdle) - 1)
                         ELSE lnkIdle
           /\ lnkOut' = [lnkOut EXCEPT ![c] =
                [gen |-> IF rebuild THEN lnkGen' ELSE h,
                 origin |-> IF popped THEN "idle" ELSE "new"]]
    /\ lnkQueueTime' = lnkNow
    /\ UNCHANGED <<lnkNow, lnkTcpTime, lnkPoolTime>>

\* The finally of DatabasesPool.database: the handle goes back to the idle
\* deque when it has room.
LinkRelease(c) ==
    /\ lnkOut[c].gen # 0
    /\ lnkIdle' = IF Len(lnkIdle) < IdleCap
                  THEN Append(lnkIdle, lnkOut[c].gen) ELSE lnkIdle
    /\ lnkOut' = [lnkOut EXCEPT ![c] = [gen |-> 0, origin |-> "none"]]
    /\ lnkQueueTime' = lnkNow
    /\ UNCHANGED <<lnkNow, lnkServer, lnkGen, lnkTcpTime, lnkPoolTime>>

\* time.time() advances.
LinkTick ==
    /\ lnkNow < MaxClock
    /\ lnkNow' = lnkNow + 1
    /\ UNCHANGED <<lnkServer, lnkGen, lnkTcpTime, lnkPoolTime, lnkQueueTime,
                   lnkIdle, lnkOut>>

\* xapian_cleanup: tcpservers.cleanup(timeout), then
\* databases_pool.cleanup(timeout).  Each returns at once when it ran less
\* than timeout ago; otherwise an object with "not obj.used and now -
\* obj.time > timeout" is deleted and cleaned up.  The used attribute of a
\* TcpDatabase is never set; the used set of the queue holds the handles
\* checked out.  The cleanup of a server kills its process.
xapian_cleanup(timeout) ==
    /\ IF lnkNow - lnkTcpTime < timeout
       THEN UNCHANGED <<lnkServer, lnkTcpTime>>
       ELSE /\ lnkServer' =
                 IF lnkServer.running /\ lnkNow - lnkServer.time > timeout
                 THEN [running |-> FALSE, time |-> 0]
                 ELSE lnkServer
            /\ lnkTcpTime' = lnkNow
    /\ IF lnkNow - lnkPoolTime < timeout
       THEN UNCHANGED <<lnkIdle, lnkPoolTime>>
       ELSE /\ lnkIdle' =
                 IF /\ \A c \in DOMAIN lnkOut : lnkOut[c].gen = 0
                    /\ lnkNow - lnkQueueTime > timeout
                 THEN <<>> ELSE lnkIdle
            /\ lnkPoolTime' = lnkNow
    /\ UNCHANGED <<lnkNow, lnkGen, lnkQueueTime, lnkOut>>

(***************************************************************************)
(* Specifications.                                                         *)
(***************************************************************************)
InitLen == LenInit /\ TcpInit /\ HashIdle /\ DbInit /\ CmdInit
    /\ PoolInit(NumCallers) /\ SrvInit /\ SubInit(<<1>>) /\ ConnInit /\ keyed = <<>> /\ (tasks = 0 /\ submitted = [pool_used |-> 0, logged |-> "none"]) /\ (lnkNow = 0 /\ lnkServer = [running |-> FALSE, time |-> 0] /\ lnkGen = 0 /\ lnkTcpTime = 0 /\ lnkPoolTime = 0 /\ lnkQueueTime = 0 /\ lnkIdle = <<>> /\ lnkOut = [c \in 1..NumCallers |-> [gen |-> 0, origin |-> "none"]])
NextLen ==
    \/ EncodeStep /\ UNCHANGED <<TcpVars, HashVars, DbVars, CmdVars, PoolVars, SrvVars, SubVars, ConnVars, KeyVars, TaskVars, LinkVars>>
    \/ DecodeStep /\ UNCHANGED <<TcpVars, HashVars, DbVars, CmdVars, PoolVars, SrvVars, SubVars, ConnVars, KeyVars, TaskVars, LinkVars>>
SpecLen == InitLen /\ [][NextLen]_vars

InitTcp == TcpInit /\ LenIdle /\ HashIdle /\ DbInit /\ CmdInit
    /\ PoolInit(NumCallers) /\ SrvInit /\ SubInit(<<1>>) /\ ConnInit /\ keyed = <<>> /\ (tasks = 0 /\ submitted = [pool_used |-> 0, logged |-> "none"]) /\ (lnkNow = 0 /\ lnkServer = [running |-> FALSE, time |-> 0] /\ lnkGen = 0 /\ lnkTcpTime = 0 /\ lnkPoolTime = 0 /\ lnkQueueTime = 0 /\ lnkIdle = <<>> /\ lnkOut = [c \in 1..NumCallers |-> [gen |-> 0, origin |-> "none"]])
NextTcp ==
    \/ TcpAcquireMint /\ UNCHANGED <<LenVars, HashVars, DbVars, CmdVars, PoolVars, SrvVars, SubVars, ConnVars, KeyVars, TaskVars, LinkVars>>
    \/ TcpAcquireReuse /\ UNCHANGED <<LenVars, HashVars, DbVars, CmdVars, PoolVars, SrvVars, SubVars, ConnVars, KeyVars, TaskVars, LinkVars>>
    \/ \E port \in ReleasePorts :
          TcpRelease(port) /\ UNCHANGED <<LenVars, HashVars, DbVars, CmdVars, PoolVars, SrvVars, SubVars, ConnVars, KeyVars, TaskVars, LinkVars>>
SpecTcp == InitTcp /\ [][NextTcp]_vars

InitHash == HashInit /\ LenIdle /\ TcpInit /\ DbInit /\ CmdInit
    /\ PoolInit(NumCallers) /\ SrvInit /\ SubInit(<<1>>) /\ ConnInit /\ keyed = <<>> /\ (tasks = 0 /\ submitted = [pool_used |-> 0, logged |-> "none"]) /\ (lnkNow = 0 /\ lnkServer = [running |-> FALSE, time |-> 0] /\ lnkGen = 0 /\ lnkTcpTime = 0 /\ lnkPoolTime = 0 /\ lnkQueueTime = 0 /\ lnkIdle = <<>> /\ lnkOut = [c \in 1..NumCallers |-> [gen |-> 0, origin |-> "none"]])
NextHash ==
    \/ HashStep /\ UNCHANGED <<LenVars, TcpVars, DbVars, CmdVars, PoolVars, SrvVars, SubVars, ConnVars, KeyVars, TaskVars, LinkVars>>
    \/ AddBucket /\ UNCHANGED <<LenVars, TcpVars, DbVars, CmdVars, PoolVars, SrvVars, SubVars, ConnVars, KeyVars, TaskVars, LinkVars>>
SpecHash == InitHash /\ [][NextHash]_vars

InitDb == DbInit /\ LenIdle /\ TcpInit /\ HashIdle /\ CmdInit
    /\ PoolInit(NumCallers) /\ SrvInit /\ SubInit(<<1>>) /\ ConnInit /\ keyed = <<>> /\ (tasks = 0 /\ submitted = [pool_used |-> 0, logged |-> "none"]) /\ (lnkNow = 0 /\ lnkServer = [running |-> FALSE, time |-> 0] /\ lnkGen = 0 /\ lnkTcpTime = 0 /\ lnkPoolTime = 0 /\ lnkQueueTime = 0 /\ lnkIdle = <<>> /\ lnkOut = [c \in 1..NumCallers |-> [gen |-> 0, origin |-> "none"]])
NextDb ==
    \/ \E op \in DatabaseOps, commit \in BOOLEAN :
          DatabaseCall(op, commit) /\ UNCHANGED <<LenVars, TcpVars, HashVars, CmdVars, PoolVars, SrvVars, SubVars, ConnVars, KeyVars, TaskVars, LinkVars>>
    \/ EngineReturns /\ UNCHANGED <<LenVars, TcpVars, HashVars, CmdVars, PoolVars, SrvVars, SubVars, ConnVars, KeyVars, TaskVars, LinkVars>>
    \/ EngineRaisesTransient /\ UNCHANGED <<LenVars, TcpVars, HashVars, CmdVars, PoolVars, SrvVars, SubVars, ConnVars, KeyVars, TaskVars, LinkVars>>
    \/ EngineRaisesInvalidArgument /\ UNCHANGED <<LenVars, TcpVars, HashVars, CmdVars, PoolVars, SrvVars, SubVars, ConnVars, KeyVars, TaskVars, LinkVars>>
    \/ \E ok \in BOOLEAN :
          SoftReopen(ok) /\ UNCHANGED <<LenVars, TcpVars, HashVars, CmdVars, PoolVars, SrvVars, SubVars, ConnVars, KeyVars, TaskVars, LinkVars>>
    \/ \E ok \in BOOLEAN :
          FullReopen(ok) /\ UNCHANGED <<LenVars, TcpVars, HashVars, CmdVars, PoolVars, SrvVars, SubVars, ConnVars, KeyVars, TaskVars, LinkVars>>
    \/ DatabaseClose /\ UNCHANGED <<LenVars, TcpVars, HashVars, CmdVars, PoolVars, SrvVars, SubVars, ConnVars, KeyVars, TaskVars, LinkVars>>
    \/ DatabaseReturn /\ UNCHANGED <<LenVars, TcpVars, HashVars, CmdVars, PoolVars, SrvVars, SubVars, ConnVars, KeyVars, TaskVars, LinkVars>>
SpecDb == InitDb /\ [][NextDb]_vars

InitCmd == CmdInit /\ LenIdle /\ TcpInit /\ HashIdle /\ DbInit
    /\ PoolInit(NumCallers) /\ SrvInit /\ SubInit(<<1>>) /\ ConnInit /\ keyed = <<>> /\ (tasks = 0 /\ submitted = [pool_used |-> 0, logged |-> "none"]) /\ (lnkNow = 0 /\ lnkServer = [running |-> FALSE, time |-> 0] /\ lnkGen = 0 /\ lnkTcpTime = 0 /\ lnkPoolTime = 0 /\ lnkQueueTime = 0 /\ lnkIdle = <<>> /\ lnkOut = [c \in 1..NumCallers |-> [gen |-> 0, origin |-> "none"]])
NextCmd ==
    \/ \E exc \in {"none", "IOError", "RuntimeError", "socket.error",
                   "Exception"} :
          DispatchLight(exc)
              /\ UNCHANGED <<LenVars, TcpVars, HashVars, DbVars, PoolVars, SrvVars, SubVars, ConnVars, KeyVars, TaskVars, LinkVars>>
    \/ ReadError /\ UNCHANGED <<LenVars, TcpVars, HashVars, DbVars, PoolVars, SrvVars, SubVars, ConnVars, KeyVars, TaskVars, LinkVars>>
    \/ DispatchHeavy /\ UNCHANGED <<LenVars, TcpVars, HashVars, DbVars, PoolVars, SrvVars, SubVars, ConnVars, KeyVars, TaskVars, LinkVars>>
    \/ \E c \in 1..MaxCommands :
          HandlerStart(c) /\ UNCHANGED <<LenVars, TcpVars, HashVars, DbVars, PoolVars, SrvVars, SubVars, ConnVars, KeyVars, TaskVars, LinkVars>>
    \/ \E c \in 1..MaxCommands :
          HandlerCheck(c) /\ UNCHANGED <<LenVars, TcpVars, HashVars, DbVars, PoolVars, SrvVars, SubVars, ConnVars, KeyVars, TaskVars, LinkVars>>
    \/ \E c \in 1..MaxCommands :
          HandlerReturn(c) /\ UNCHANGED <<LenVars, TcpVars, HashVars, DbVars, PoolVars, SrvVars, SubVars, ConnVars, KeyVars, TaskVars, LinkVars>>
    \/ \E c \in 1..MaxCommands, result \in {"error", "raised"} :
          HandlerRaise(c, result)
              /\ UNCHANGED <<LenVars, TcpVars, HashVars, DbVars, PoolVars, SrvVars, SubVars, ConnVars, KeyVars, TaskVars, LinkVars>>
SpecCmd == InitCmd /\ [][NextCmd]_vars

Others == <<LenVars, TcpVars, HashVars, DbVars, CmdVars, SrvVars, SubVars, ConnVars, KeyVars, TaskVars, LinkVars>>

Init == PoolInit(NumCallers) /\ LenIdle /\ TcpInit /\ HashIdle /\ DbInit /\ CmdInit /\ SrvInit /\ SubInit(<<1>>) /\ ConnInit /\ keyed = <<>> /\ (tasks = 0 /\ submitted = [pool_used |-> 0, logged |-> "none"]) /\ (lnkNow = 0 /\ lnkServer = [running |-> FALSE, time |-> 0] /\ lnkGen = 0 /\ lnkTcpTime = 0 /\ lnkPoolTime = 0 /\ lnkQueueTime = 0 /\ lnkIdle = <<>> /\ lnkOut = [c \in 1..NumCallers |-> [gen |-> 0, origin |-> "none"]])
Next ==
    \/ \E c \in DOMAIN callers, reopen \in BOOLEAN :
          /\ poolScopes < MaxScopes
          /\ Checkout(c, reopen)
          /\ UNCHANGED Others
    \/ \E c \in DOMAIN callers, ok \in BOOLEAN :
          Construct(c, ok) /\ UNCHANGED Others
    \/ \E c \in DOMAIN callers,
           result \in {"refreshed", "rebuilt", "failed"} :
          CheckoutReopen(c, result) /\ UNCHANGED Others
    \/ \E c \in DOMAIN callers : BodyClose(c) /\ UNCHANGED Others
    \/ \E c \in DOMAIN callers : Release(c) /\ UNCHANGED Others
    \/ Tick /\ UNCHANGED Others
    \/ ReapSelect(ReapTimeout) /\ UNCHANGED Others
    \/ ReapCleanup /\ UNCHANGED Others
Spec == Init /\ [][Next]_vars

\* The idle queue filled past its cap: CapCallers callers enter one scope
\* each, in the order of their numbers, and leave it once all have entered;
\* of the callers at one position the lowest moves, and the body of the
\* first caller may leave its handle closed.  The reaper runs at any time.
InitCap == PoolInit(CapCallers) /\ LenIdle /\ TcpInit /\ HashIdle /\ DbInit /\ CmdInit /\ SrvInit /\ SubInit(<<1>>) /\ ConnInit /\ keyed = <<>> /\ (tasks = 0 /\ submitted = [pool_used |-> 0, logged |-> "none"]) /\ (lnkNow = 0 /\ lnkServer = [running |-> FALSE, time |-> 0] /\ lnkGen = 0 /\ lnkTcpTime = 0 /\ lnkPoolTime = 0 /\ lnkQueueTime = 0 /\ lnkIdle = <<>> /\ lnkOut = [c \in 1..NumCallers |-> [gen |-> 0, origin |-> "none"]])
NextCap ==
    \/ \E c \in DOMAIN callers :
          /\ c = poolScopes + 1
          /\ Checkout(c, FALSE)
          /\ UNCHANGED Others
    \/ \E c \in DOMAIN callers :
          First(c, {"construct"}) /\ Construct(c, TRUE) /\ UNCHANGED Others
    \/ BodyClose(1) /\ UNCHANGED Others
    \/ \E c \in DOMAIN callers :
          /\ poolScopes = CapCallers
          /\ First(c, {"body"})
          /\ Release(c)
          /\ UNCHANGED Others
    \/ Tick /\ UNCHANGED Others
    \/ ReapSelect(ReapTimeout) /\ UNCHANGED Others
    \/ ReapCleanup /\ UNCHANGED Others
SpecCap == InitCap /\ [][NextCap]_vars

NotSrv == <<LenVars, HashVars, DbVars, CmdVars, PoolVars, SubVars,
           ConnVars, KeyVars, TaskVars, LinkVars>>

InitSpawn == SrvInit /\ TcpInit /\ LenIdle /\ HashIdle /\ DbInit /\ CmdInit
    /\ PoolInit(NumCallers) /\ SubInit(<<1>>) /\ ConnInit /\ keyed = <<>> /\ (tasks = 0 /\ submitted = [pool_used |-> 0, logged |-> "none"]) /\ (lnkNow = 0 /\ lnkServer = [running |-> FALSE, time |-> 0] /\ lnkGen = 0 /\ lnkTcpTime = 0 /\ lnkPoolTime = 0 /\ lnkQueueTime = 0 /\ lnkIdle = <<>> /\ lnkOut = [c \in 1..NumCallers |-> [gen |-> 0, origin |-> "none"]])
NextSpawn ==
    \* idle callers are interchangeable: the lowest one calls next
    \/ \E s \in DOMAIN spawners :
          /\ \A t \in 1..(s - 1) : spawners[t].pc # "idle"
          /\ SpawnLookup(s) /\ UNCHANGED NotSrv
    \/ \E s \in DOMAIN spawners : SpawnAcquire(s) /\ UNCHANGED NotSrv
    \/ \E s \in DOMAIN spawners, ok \in BOOLEAN, refused \in 0..MaxRefused :
          SpawnLaunch(s, ok, refused) /\ UNCHANGED NotSrv
    \/ \E s \in DOMAIN spawners : SpawnReturn(s) /\ UNCHANGED NotSrv
    \/ \E s \in DOMAIN spawners : SpawnDone(s) /\ UNCHANGED NotSrv
    \* only the registered server is ever tested for being active
    \/ ProcessExits(srvEntry) /\ UNCHANGED NotSrv
    \/ ServerAges(srvEntry) /\ UNCHANGED NotSrv
    \/ ServerReap /\ UNCHANGED NotSrv
    \/ \E o \in 1..MaxSpawnCalls : ServerFinalize(o) /\ UNCHANGED NotSrv
SpecSpawn == InitSpawn /\ [][NextSpawn]_vars

InitClose == (\E endpoints \in EndpointLists : SubInit(endpoints))
    /\ LenIdle /\ TcpInit /\ HashIdle /\ DbInit /\ CmdInit
    /\ PoolInit(NumCallers) /\ SrvInit /\ ConnInit /\ keyed = <<>> /\ (tasks = 0 /\ submitted = [pool_used |-> 0, logged |-> "none"]) /\ (lnkNow = 0 /\ lnkServer = [running |-> FALSE, time |-> 0] /\ lnkGen = 0 /\ lnkTcpTime = 0 /\ lnkPoolTime = 0 /\ lnkQueueTime = 0 /\ lnkIdle = <<>> /\ lnkOut = [c \in 1..NumCallers |-> [gen |-> 0, origin |-> "none"]])
NextClose ==
    \/ SubClose /\ UNCHANGED <<LenVars, TcpVars, HashVars, DbVars, CmdVars, PoolVars, SrvVars, ConnVars, KeyVars, TaskVars, LinkVars>>
SpecClose == InitClose /\ [][NextClose]_vars

InitServer == ConnInit /\ LenIdle /\ TcpInit /\ HashIdle /\ DbInit /\ CmdInit
    /\ PoolInit(NumCallers) /\ SrvInit /\ SubInit(<<1>>) /\ keyed = <<>> /\ (tasks = 0 /\ submitted = [pool_used |-> 0, logged |-> "none"]) /\ (lnkNow = 0 /\ lnkServer = [running |-> FALSE, time |-> 0] /\ lnkGen = 0 /\ lnkTcpTime = 0 /\ lnkPoolTime = 0 /\ lnkQueueTime = 0 /\ lnkIdle = <<>> /\ lnkOut = [c \in 1..NumCallers |-> [gen |-> 0, origin |-> "none"]])
NextServer ==
    \/ \E c \in DOMAIN conns, made \in BOOLEAN : Accept(c, made) /\ UNCHANGED <<LenVars, TcpVars, HashVars, DbVars, CmdVars, PoolVars, SrvVars, SubVars, KeyVars, TaskVars, LinkVars>>
    \/ \E c \in DOMAIN conns, byte \in {0, 30, 31, 255} :
          ReadOpcode(c, byte) /\ UNCHANGED <<LenVars, TcpVars, HashVars, DbVars, CmdVars, PoolVars, SrvVars, SubVars, KeyVars, TaskVars, LinkVars>>
    \/ \E c \in DOMAIN conns : ReadRaises(c) /\ UNCHANGED <<LenVars, TcpVars, HashVars, DbVars, CmdVars, PoolVars, SrvVars, SubVars, KeyVars, TaskVars, LinkVars>>
    \/ \E max_age \in {"none", "ten"} : ServerClose(max_age) /\ UNCHANGED <<LenVars, TcpVars, HashVars, DbVars, CmdVars, PoolVars, SrvVars, SubVars, KeyVars, TaskVars, LinkVars>>
SpecServer == InitServer /\ [][NextServer]_vars

NextPoolKey ==
    \/ \E writable \in BOOLEAN,
          endpoints \in UNION {[1..n -> 1..(2 * NumEndpointKeys)] :
                                  n \in 1..MaxKeyEndpoints} :
          CheckoutKey(writable, endpoints) /\ UNCHANGED <<LenVars, TcpVars, HashVars, DbVars, CmdVars, PoolVars, SrvVars, SubVars, ConnVars, TaskVars, LinkVars>>
SpecPoolKey == Init /\ [][NextPoolKey]_vars

NextTasks ==
    \/ SubmitHeavy /\ UNCHANGED <<LenVars, TcpVars, HashVars, DbVars, CmdVars, PoolVars, SrvVars, SubVars, ConnVars, KeyVars, LinkVars>>
    \/ TaskEnds /\ UNCHANGED <<LenVars, TcpVars, HashVars, DbVars, CmdVars, PoolVars, SrvVars, SubVars, ConnVars, KeyVars, LinkVars>>
SpecTasks == Init /\ [][NextTasks]_vars

NextReply ==
    \/ \E num_docs \in {0, 3, 254, 255, 300}, more \in {0, 1, 255},
          doclen_lb \in {0, 7}, span \in {0, 260},
          has_positions \in BOOLEAN, total_len \in {0, 254, 1000},
          uuid \in {<<1, 2>>, <<255, 0, 49>>} :
          ReplyUpdate([num_docs |-> num_docs,
                       lastdocid |-> num_docs + more,
                       doclen_lb |-> doclen_lb,
                       doclen_ub |-> doclen_lb + span,
                       has_positions |-> has_positions,
                       total_len |-> total_len,
                       uuid |-> uuid])
             /\ UNCHANGED <<TcpVars, HashVars, DbVars, CmdVars, PoolVars, SrvVars, SubVars, ConnVars, KeyVars, TaskVars, LinkVars>>
SpecReply == Init /\ [][NextReply]_vars

\* Servers and handles: checkouts and releases on one endpoint against the
\* clock and xapian_cleanup.
NextLink ==
    \/ \E c \in 1..NumCallers, reopen \in BOOLEAN :
          LinkCheckout(c, reopen) /\ UNCHANGED <<LenVars, TcpVars, HashVars, DbVars, CmdVars, PoolVars, SrvVars, SubVars, ConnVars, KeyVars, TaskVars>>
    \/ \E c \in 1..NumCallers : LinkRelease(c) /\ UNCHANGED <<LenVars, TcpVars, HashVars, DbVars, CmdVars, PoolVars, SrvVars, SubVars, ConnVars, KeyVars, TaskVars>>
    \/ LinkTick /\ UNCHANGED <<LenVars, TcpVars, HashVars, DbVars, CmdVars, PoolVars, SrvVars, SubVars, ConnVars, KeyVars, TaskVars>>
    \/ xapian_cleanup(ReapTimeout) /\ UNCHANGED <<LenVars, TcpVars, HashVars, DbVars, CmdVars, PoolVars, SrvVars, SubVars, ConnVars, KeyVars, TaskVars>>
SpecLink == Init /\ [][NextLink]_vars

(***************************************************************************)
(* Claims.                                                                 *)
(***************************************************************************)

\* C4: decode_length(encode_length(x)) returns the value x, for every x
\* tried (below 255, 255 itself, two or more continuation bytes).
LengthRoundTrip ==
    lenPc = "decoded" => lenDecoded[1] = lenValue

\* C6: while fewer than MIN_TCP_SERVER_PORTS ports are held, acquire()
\* returns a freshly minted port (the counter's next value), never a port
\* that was released before.
AcquireBelowMinimumMints ==
    (tcpLast.op = "acquire" /\ tcpLast.held < MIN_TCP_SERVER_PORTS)
        => /\ tcpLast.port = tcpLast.counter
           /\ tcpPort = tcpLast.counter + 1
           /\ tcpLast.port \notin tcpReleased

\* Witness of C6: an acquire() made below the minimum while released ports
\* were waiting in the free queue.
AcquireBelowMinimumWitness ==
    /\ tcpLast.op = "acquire"
    /\ tcpLast.held < MIN_TCP_SERVER_PORTS
    /\ Len(tcpLast.free) >= 2

\* C7: with at least MIN_TCP_SERVER_PORTS held and a non-empty free queue,
\* acquire() returns the port released earliest among those in the queue.
AcquireReusesOldest ==
    (/\ tcpLast.op = "acquire"
     /\ tcpLast.held >= MIN_TCP_SERVER_PORTS
     /\ tcpLast.free # <<>>)
        => tcpLast.port = Head(tcpLast.free)

\* C9: when one bucket is added (n -> n + 1), a key stays in its bucket or
\* moves to the new bucket n; it never moves between two old buckets.
HashStableUnderGrowth ==
    (hashPc = "hashed" /\ hashGrowth > 0)
        => hashResult \in {hashPrev, hashBuckets - 1}

\* Witness of C9: a key that moved to the bucket just added.
HashMovedToNewBucket ==
    /\ hashPc = "hashed"
    /\ hashGrowth > 0
    /\ hashResult = hashBuckets - 1
    /\ hashResult # hashPrev

\* C10: consistent_hash gives the published reference values (1,1)->0,
\* (256,1024)->520, (42,57)->43, (0xDEAD10CC,666)->361, and 0 for every key
\* when num_buckets is 1 or negative.
HashReferenceValues ==
    hashPc = "hashed" =>
        /\ (hashKey = NatBytes(1, 8) /\ hashBuckets = 1) => hashResult = 0
        /\ (hashKey = NatBytes(256, 8) /\ hashBuckets = 1024)
               => hashResult = 520
        /\ (hashKey = NatBytes(42, 8) /\ hashBuckets = 57) => hashResult = 43
        /\ (hashKey = KeyDEAD10CC /\ hashBuckets = 666) => hashResult = 361
        /\ (hashBuckets = 1 \/ hashBuckets < 0) => hashResult = 0

\* Witness of C10: the reference call (256, 1024) has returned 520.
HashReferenceReached ==
    /\ hashPc = "hashed"
    /\ hashKey = NatBytes(256, 8)
    /\ hashBuckets = 1024
    /\ hashResult = 520

\* The tries of phase ph all raised a transient error (and there was one).
AllTransient(ph) ==
    /\ CallCount(dbLog, ph) > 0
    /\ \A e \in Events(dbLog, "call") :
          e.phase = ph => e.result = "transient"

\* C2 as stated: an operation whose engine call raises a transient error
\* on every try makes exactly 5 tries and then raises XapianError.
RetryAlwaysFiveThenFatal ==
    (dbPc = "done" /\ AllTransient(dbPhase))
        => /\ CallCount(dbLog, dbPhase) = 5
           /\ dbOutcome = "XapianError"

\* C2 as amended: when every try raises a transient error the operation
\* never makes a 6th try and never returns normally; it makes exactly 5
\* tries and raises XapianError unless a rebuild of the subdatabases during
\* a reopen raised InvalidIndexError, which ends the operation at once.
RetryFiveThenFatalUnlessRebuildFails ==
    /\ \A ph \in {"main", "commit"} : CallCount(dbLog, ph) <= 5
    /\ (dbPc = "done" /\ AllTransient(dbPhase))
          => /\ dbOutcome \in {"XapianError", "InvalidIndexError"}
             /\ dbOutcome = "InvalidIndexError"
                   <=> Events(dbLog, "rebuild_failed") # {}
             /\ dbOutcome = "XapianError"
                   => CallCount(dbLog, dbPhase) = 5

\* Witness of C2: five tries, all transient, every reopen worked, XapianError.
RetryExhausted ==
    /\ dbPc = "done"
    /\ dbOp = "replace"
    /\ AllTransient("main")
    /\ CallCount(dbLog, "main") = 5
    /\ dbOutcome = "XapianError"

\* C3: the reopen after the 1st failed try is requested soft;
\* the reopen after the 2nd and every later failed try is a forced full one.
ReopenForcedFromSecondFailure ==
    \A e \in Events(dbLog, "reopened") :
        /\ e.t = 0 => ~e.force
        /\ e.t >= 1 => (e.force /\ e.full)

HandleHeldOnce ==
    \A c \in Holders, d \in Holders :
        callers[c].database = callers[d].database => c = d

\* Witness of C1: two callers hold handles of the same queue at the same
\* time, one of them a handle that had been released before.
HandleReusedBesideAnother ==
    \E c \in Holders, d \in Holders :
        /\ c # d
        /\ callers[c].queue = callers[d].queue
        /\ ~callers[c].new
        /\ callers[c].pc = "body"
        /\ callers[d].pc = "body"

\* The handles that are marked closed.
ClosedHandles == {h \in DOMAIN handles : handles[h].closed}

\* C5: an idle queue never holds more than 10 handles; when N > 10 handles
\* were checked out at the same time and then all released, exactly 10 of
\* them are idle in the key's queue and the other N - 10 are closed.
IdleCapRetainsTen ==
    /\ \A q \in DOMAIN queues : Len(queues[q].unused) <= 10
    /\ ( /\ poolPeak > 10
         /\ poolPeak = Len(handles)
         /\ poolScopes = poolPeak
         /\ \A c \in DOMAIN callers : callers[c].pc = "idle"
         /\ poolKey # 0 )
          => /\ Len(queues[poolKey].unused) = 10
             /\ Cardinality(ClosedHandles) = poolPeak - 10

\* The callers inside xapian_spawn that have acquired a port.
Spawning == {s \in DOMAIN spawners : spawners[s].port # 0}

\* C11: concurrent xapian_spawn calls for an endpoint without a live entry
\* spawn one server (one port is acquired), and every caller returns the
\* address of the entry stored in the registry for the endpoint.
SpawnSingleWinner ==
    /\ \A s \in Spawning, t \in Spawning : s = t
    /\ \A s \in DOMAIN spawners :
          (spawners[s].pc = "done" /\ spawners[s].outcome = "returned")
              => spawners[s].server = spawners[s].stored

\* The handles in the idle queue registered under the key.
IdleInPool ==
    IF poolKey = 0 THEN {}
    ELSE {queues[poolKey].unused[i] : i \in DOMAIN queues[poolKey].unused}

\* C12: right after a reap with timeout T has run, no handle that has been
\* idle for longer than T is left open in the pool.
ReapDropsOldIdle ==
    (poolTime > 0 /\ poolNow = poolTime /\ cleanups = <<>>)
        => \A h \in IdleInPool :
              poolNow - handles[h].since > ReapTimeout => handles[h].closed

\* A reap step: the lock region of cleanup or the cleanup of one queue.
ReapStep == poolTime' # poolTime \/ cleanups' # cleanups

\* C13: a reap never closes a handle that is checked out and never removes
\* it from the used set of its queue.
ReapSparesUsed ==
    [][ReapStep =>
         \A q \in DOMAIN queues : \A h \in queues[q].used :
             /\ h \in queues'[q].used
             /\ handles'[h].closed = handles[h].closed]_vars

\* Witness of C13: a queue has been cleaned up, an idle handle of it was
\* closed, and a handle checked out of the same queue is still open.
ReapClosedIdleBesideUsed ==
    \E q \in DOMAIN queues :
        /\ queues[q].cleaned
        /\ \E i \in DOMAIN queues[q].unused :
              handles[queues[q].unused[i]].closed
        /\ \E h \in queues[q].used : ~handles[h].closed

\* C14 as stated: when a scope exits, its handle leaves the used set, and
\* it is appended to the idle queue if that is below its cap of 10 and
\* closed otherwise.
ReleaseQueuesOrCloses ==
    [][\A c \in DOMAIN callers :
         (callers[c].pc \in {"body", "exit"} /\ callers'[c].pc = "idle")
           => LET q == callers[c].queue
                  h == callers[c].database
              IN  /\ h \in queues[q].used
                  /\ h \notin queues'[q].used
                  /\ IF Len(queues[q].unused) < 10
                     THEN queues'[q].unused = Append(queues[q].unused, h)
                     ELSE /\ handles'[h].closed
                          /\ queues'[q].unused = queues[q].unused]_vars

\* C14 as amended: when a scope exits, its handle leaves the used set; if
\* the idle queue is below its cap of 10 the handle is appended to it when
\* it is open and dropped without being queued when it is closed; at the
\* cap the handle is closed.
ReleaseQueuesOpenOrCloses ==
    [][\A c \in DOMAIN callers :
         (callers[c].pc \in {"body", "exit"} /\ callers'[c].pc = "idle")
           => LET q == callers[c].queue
                  h == callers[c].database
              IN  /\ h \in queues[q].used
                  /\ h \notin queues'[q].used
                  /\ handles'[h].closed =
                       (handles[h].closed \/ Len(queues[q].unused) >= 10)
                  /\ queues'[q].unused =
                       IF Len(queues[q].unused) < 10 /\ ~handles[h].closed
                       THEN Append(queues[q].unused, h)
                       ELSE queues[q].unused]_vars

\* Witness of C14: every scope has exited; one handle was closed by its
\* scope and dropped at release, ten others fill the idle queue.
ReleasedClosedDropped ==
    /\ poolScopes = Len(callers)
    /\ \A c \in DOMAIN callers : callers[c].pc = "idle"
    /\ \E q \in DOMAIN queues :
          /\ ~queues[q].cleaned
          /\ Len(queues[q].unused) = 10
          /\ \E h \in DOMAIN handles :
                /\ handles[h].closed
                /\ \A i \in DOMAIN queues[q].unused : queues[q].unused[i] # h

\* C15: a handle that was marked closed when an operation was called on it
\* stays closed, and no engine call of the operation succeeds.
ClosedHandleStaysClosed ==
    (\E e \in Events(dbLog, "enter") : e.closed)
        => /\ dbClosed
           /\ \A e \in Events(dbLog, "call") : e.result # "ok"

\* C18: an engine call that raises a non-transient error is the last thing
\* the operation does (no further engine call, reopen or sleep), and the
\* operation ends with that error.
NonTransientSurfaces ==
    dbPc = "done"
        => \A i \in DOMAIN dbLog :
              (dbLog[i].ev = "call" /\ dbLog[i].result = "invalid")
                  => /\ i = Len(dbLog)
                     /\ dbOutcome = "InvalidArgumentError"

\* C17: over any sequence of cleanup() calls on a server with a process,
\* the process is killed at most once and the port released at most once,
\* and a cleanup() of a server marked cleaned changes nothing but the count
\* of calls.
CleanupAtMostOnce ==
    [][\A o \in DOMAIN servers :
          /\ servers'[o].kills <= 1
          /\ servers'[o].releases <= 1
          /\ servers[o].cleaned =>
                /\ servers'[o].kills = servers[o].kills
                /\ servers'[o].releases = servers[o].releases
                /\ servers'[o].cleaned
                /\ servers'[o].port \notin tcpUsed' \ tcpUsed]_vars

\* A server cleaned up by the reaper and then again by its finalizer.
CleanedUpTwice ==
    \E o \in DOMAIN servers :
        /\ servers[o].cleanups = 2
        /\ servers[o].kills = 1
        /\ servers[o].releases = 1

\* C16: once close() has run on a handle, each of its subdatabases was
\* removed from the registry exactly once and got exactly one close call
\* from the cleanup loop, however many close() calls were made and also when
\* an endpoint is listed more than once.
SubdatabasesClosedOnce ==
    subClosed =>
        /\ subRegistry = {}
        /\ \A i \in DOMAIN subAllDatabases :
              /\ subRemoved[subAllDatabases[i]] = 1
              /\ subCloseCalls[subAllDatabases[i]] = 1

\* C19: the step in which a connection reads an unrecognized opcode closes
\* that connection's socket, ends its receive loop and takes it out of the
\* server's registry, and changes no other connection's socket, loop or
\* registry membership.
InvalidOpcodeClosesOnlyOffender ==
    [][\A c \in DOMAIN conns :
          (conns[c].pc = "loop" /\ conns'[c].cause = "InvalidCommand")
              => /\ conns'[c].sock = "closed"
                 /\ conns'[c].pc = "ended"
                 /\ c \notin clients'
                 /\ \A d \in DOMAIN conns \ {c} :
                       /\ conns'[d] = conns[d]
                       /\ d \in clients' <=> d \in clients]_vars

\* A connection was closed for an unrecognized opcode while another one is
\* registered with its socket open and its loop running.
InvalidOpcodeBesideOpen ==
    \E c \in DOMAIN conns, d \in DOMAIN conns :
        /\ conns[c].cause = "InvalidCommand"
        /\ conns[d] = [pc |-> "loop", sock |-> "open", cause |-> "none"]
        /\ d \in clients

\* C20: a close() without max_age on a server that is already closed closes
\* the socket of every client left in the registry, empties the registry and
\* returns True.
ForcedCloseClearsClients ==
    [][(closeCalls' # closeCalls /\ serverClosed
            /\ closeLast'.max_age = "none")
          => /\ \A c \in clients : conns'[c].sock = "closed"
             /\ clients' = {}
             /\ closeLast'.result = "true"]_vars

\* After a forced close a connection whose loop has not ended yet is out of
\* the registry with its socket closed.
ForcedCloseHitRunningClient ==
    /\ closeLast = [max_age |-> "none", wasClosed |-> TRUE, result |-> "true"]
    /\ \E c \in DOMAIN conns :
          /\ conns[c].pc = "loop"
          /\ conns[c].sock = "closed"
          /\ c \notin clients

\* C21: a spawn whose server never accepted a connection within the poll,
\* or whose server could not be started, ends with InvalidIndexError, and a
\* spawn that returns the address of its new server found it connectable.
SpawnReturnsOnlyConnected ==
    \A s \in DOMAIN spawners :
        spawners[s].pc = "done" =>
            /\ spawners[s].launch = "unreachable"
                  => spawners[s].outcome = "InvalidIndexError"
            /\ (spawners[s].outcome = "returned"
                   /\ spawners[s].launch \notin {"none", "failed"})
                  => spawners[s].launch = "connected"

\* The normalized endpoint e is listed as often by checkout i as by j.
SameEndpointCount(i, j, e) ==
    Cardinality({p \in DOMAIN keyed[i].key[2] : keyed[i].key[2][p] = e})
        = Cardinality({p \in DOMAIN keyed[j].key[2] : keyed[j].key[2][p] = e})

\* C22: two checkouts with the same write-mode flag that list the same
\* normalized endpoints, in whatever order, have the same pool key, and two
\* checkouts with different write-mode flags never have the same key.
PoolKeyIgnoresOrder ==
    \A i \in DOMAIN keyed, j \in DOMAIN keyed :
        /\ (keyed[i].writable = keyed[j].writable
              /\ \A e \in 1..NumEndpointKeys : SameEndpointCount(i, j, e))
               => keyed[i].key = keyed[j].key
        /\ keyed[i].writable # keyed[j].writable
               => keyed[i].key # keyed[j].key

\* C23: a heavy command submitted into the last free slot of the pool is
\* logged as the 'pool is full' error, and one that leaves the pool at or
\* above the warning threshold but not full as the near-capacity warning.
PoolFullLogsError ==
    /\ submitted.pool_used = COMMANDS_POOL_SIZE
          => submitted.logged = "error"
    /\ (submitted.pool_used >= (COMMANDS_POOL_SIZE * 2) \div 3
           /\ submitted.pool_used < COMMANDS_POOL_SIZE)
          => submitted.logged = "warning"

\* C24: among the tries of an operation that fail transiently and are
\* followed by a retry, the backoff sleep comes right after the 2nd and
\* every later one, and not after the 1st (try number is _t + 1).
BackoffFromSecondFailure ==
    \A i \in DOMAIN dbLog :
        (/\ dbLog[i].ev = "call"
         /\ dbLog[i].result = "transient"
         /\ \E j \in (i + 1)..Len(dbLog) :
               /\ dbLog[j].ev = "call"
               /\ dbLog[j].phase = dbLog[i].phase
               /\ dbLog[j].t = dbLog[i].t + 1)
            => (dbLog[i].t + 1 >= 2 <=> dbLog[i + 1].ev = "sleep")

\* C25: for every key and bucket count num_buckets >= 1 tried,
\* consistent_hash returns a bucket b with 0 <= b < num_buckets.
HashInRange ==
    (hashPc = "hashed" /\ hashBuckets >= 1)
        => (0 <= hashResult /\ hashResult < hashBuckets)

\* The key 0xFFFFFFFFFFFFFFFF was hashed into one of 666 buckets.
HashAllOnesHashed ==
    /\ hashPc = "hashed"
    /\ hashKey = KeyAllOnes
    /\ hashBuckets = 666
    /\ hashResult \in 0..665

\* The stats fields of the reply in the order of the claim, encoded.
StatsFields(st) ==
    encode_length(st.num_docs)
    \o encode_length(st.lastdocid - st.num_docs)
    \o encode_length(st.doclen_lb)
    \o encode_length(st.doclen_ub - st.doclen_lb)
    \o <<IF st.has_positions THEN 49 ELSE 48>>
    \o encode_length(st.total_len)
    \o st.uuid

\* C26 as stated: the frame is the reply opcode followed at once by the
\* stats fields and the UUID.
ReplyFrameAsStated ==
    lenReply # <<>> => lenReply[2] = <<REPLY_UPDATE>> \o StatsFields(lenReply[1])

\* C26: the frame is the reply opcode, the encoded length of the message,
\* the protocol version bytes 39 and 0, and then the stats fields and the
\* UUID in the stated order with nothing between them.
ReplyFrameLayout ==
    lenReply # <<>> =>
        lenReply[2] = <<REPLY_UPDATE>>
                      \o encode_length(2 + Len(StatsFields(lenReply[1])))
                      \o <<39, 0>> \o StatsFields(lenReply[1])

\* A reply was sent for a database whose doc count takes the 0xFF form.
ReplySentLongCount ==
    /\ lenReply # <<>>
    /\ lenReply[1].num_docs >= 255
    /\ lenReply[1].has_positions

\* C27: in every pool queue, registered or taken out by the reaper, no
\* handle is both in the used set and in the idle deque, and no handle is
\* twice in the idle deque.
UsedIdleDisjoint ==
    \A q \in DOMAIN queues :
        LET unused == queues[q].unused
        IN  /\ \A i \in DOMAIN unused : unused[i] \notin queues[q].used
            /\ \A i \in DOMAIN unused, j \in DOMAIN unused :
                  unused[i] = unused[j] => i = j

\* After a reap has run, a queue has one handle idle and another in use.
UsedAndIdleAfterReap ==
    /\ poolTime > 0
    /\ \E q \in DOMAIN queues :
          /\ queues[q].unused # <<>>
          /\ queues[q].used # {}

\* C28: when release is only called for held ports, the held set and the
\* free queue are disjoint, the port acquire() returns is not held by
\* anyone else, and a port handed out before is returned again only out of
\* the free queue, after its release.
PortReusedOnlyAfterRelease ==
    /\ \A i \in DOMAIN tcpUnused : tcpUnused[i] \notin tcpUsed
    /\ tcpLast.op = "acquire" =>
          /\ tcpLast.port \in tcpUsed
          /\ Cardinality(tcpUsed) = tcpLast.held + 1
          /\ IF tcpLast.minted
             THEN tcpLast.port = tcpLast.counter
             ELSE /\ tcpLast.port \in tcpReleased
                  /\ \E i \in DOMAIN tcpLast.free :
                        tcpLast.free[i] = tcpLast.port

\* acquire() has returned a port that was released before, while another
\* released port is still waiting.
PortReusedWitness ==
    /\ tcpLast.op = "acquire"
    /\ ~tcpLast.minted
    /\ tcpUnused # <<>>

RECURSIVE GroupsValue(_, _)
\* The number whose base-128 digits, least significant first, are the low
\* 7 bits of groups[i..].
GroupsValue(groups, i) ==
    IF i > Len(groups) THEN 0
    ELSE (groups[i] % 128) + 128 * GroupsValue(groups, i + 1)

\* C29: encode_length gives the single byte v for v < 255, and for
\* v >= 255 the byte 0xFF followed by the base-128 groups of v - 255, least
\* significant first and no more than needed, the high bit set on the last
\* group only; encode(254) is one byte, encode(255) and encode(256) start
\* with 0xFF and differ after it.
EncodeLengthFormat ==
    lenPc = "encoded" =>
        LET groups == SubSeq(lenEncoded, 2, Len(lenEncoded))
        IN  /\ lenValue < 255 => lenEncoded = <<lenValue>>
            /\ lenValue >= 255 =>
                  /\ lenEncoded[1] = 255
                  /\ groups # <<>>
                  /\ \A i \in DOMAIN groups :
                        groups[i] >= 128 <=> i = Len(groups)
                  /\ GroupsValue(groups, 1) = lenValue - 255
                  /\ Len(groups) > 1 => groups[Len(groups)] # 128
            /\ lenValue = 255 => lenEncoded = <<255, 128>>
            /\ lenValue = 256 => lenEncoded = <<255, 129>>

\* A length that takes the marker and three groups was encoded.
EncodedThreeGroups ==
    /\ lenPc = "encoded"
    /\ lenValue >= 255
    /\ Len(lenEncoded) = 4

\* C30: a rebuild of the subdatabases that fails with InvalidIndexError is
\* the last thing the operation does: no engine try follows, the operation
\* ends with InvalidIndexError and not XapianError, and the handle stays
\* marked closed.
RebuildFailureSurfaces ==
    \A i \in DOMAIN dbLog :
        dbLog[i].ev = "rebuild_failed"
            => /\ i = Len(dbLog)
               /\ dbPc \in {"done", "idle"}
               /\ dbOutcome = "InvalidIndexError"
               /\ dbClosed

\* The rebuild failed in the forced reopen after the third failed try.
RebuildFailedAfterThirdTry ==
    /\ dbPc = "done"
    /\ \E e \in Events(dbLog, "rebuild_failed") : e.t = 2
    /\ CallCount(dbLog, "main") = 3

\* C31: every step leaves the connection's counter as it was or one higher,
\* the command dispatched by the step holds the new value, and of the
\* tokens of a connection only the one dispatched last passes its check.
TokenGenerations ==
    [][/\ cmd_id' \in {cmd_id, cmd_id + 1}
       /\ Len(cmds') = cmd_id'
       /\ \A c \in DOMAIN cmds' : ~TokenDead(c, cmd_id') <=> c = cmd_id']_vars

\* Three commands were dispatched while the first, a heavy one, still runs.
StaleTokenStillRunning ==
    /\ cmd_id = 3
    /\ 1 \in HeavyIn("running")

\* C32: the reaper never takes a queue out of the pool while a caller
\* inside a checkout scope refers to it, and a handle released open into a
\* queue with room is then idle in the queue registered under the key.
ReleaseIntoRegisteredQueue ==
    [][/\ (poolKey # 0 /\ poolKey' # poolKey)
            => \A c \in DOMAIN callers : callers[c].queue # poolKey
       /\ \A c \in DOMAIN callers :
             (/\ callers[c].pc \in {"body", "exit"}
              /\ callers'[c].pc = "idle"
              /\ ~handles[callers[c].database].closed
              /\ IdleHasRoom(queues[callers[c].queue].unused))
                 => /\ poolKey' = callers[c].queue
                    /\ \E i \in DOMAIN queues'[poolKey'].unused :
                          queues'[poolKey'].unused[i] = callers[c].database]_vars

\* C33: every port in the held set of the TcpPool is the port of a spawned
\* server that was not cleaned up, or of a call between its acquire() and
\* the launch of its process; a port whose launch failed does not stay held.
HeldPortsOwned ==
    \A p \in tcpUsed :
        \/ \E o \in DOMAIN servers :
              servers[o].port = p /\ ~servers[o].cleaned
        \/ \E s \in DOMAIN spawners :
              spawners[s].pc = "launch" /\ spawners[s].port = p

\* C34: when xapian_spawn has spawned a server for an endpoint whose
\* registry entry was dead or past the short-life threshold, the registry
\* entry becomes the newly spawned server, the one whose address is
\* returned.
SpawnReplacesDeadEntry ==
    [][\A s \in DOMAIN spawners :
          (/\ spawners[s].pc = "launch"
           /\ spawners'[s].pc = "return"
           /\ spawners'[s].launch # "failed"
           /\ srvEntry # 0
           /\ ~Active(srvEntry))
              => srvEntry' = spawners'[s].server]_vars

\* C35: in a replace, every commit call on the engine comes after a
\* replace_document call that returned; after InvalidArgumentError nothing
\* is committed.
CommitOnlyAfterReplaced ==
    dbOp = "replace"
        => \A i \in DOMAIN dbLog :
              (dbLog[i].ev = "call" /\ dbLog[i].phase = "commit")
                  => \E j \in 1..(i - 1) :
                        /\ dbLog[j].ev = "call"
                        /\ dbLog[j].phase = "main"
                        /\ dbLog[j].result = "ok"

\* C36: the client registry holds only connections whose handler is
\* running its receive loop; a connection whose connectionMade raised is
\* not in it.
RegistryOnlyRunning ==
    \A c \in clients : conns[c].pc = "loop"

\* C37: the reaper of spawned servers does not kill the server of an
\* endpoint while a handle connected to that server is checked out of the
\* pool, whether the handle was newly built or popped from the idle deque.
ReaperSparesServersInUse ==
    [][(lnkServer.running /\ ~lnkServer'.running)
          => \A c \in DOMAIN lnkOut : lnkOut[c].gen # lnkGen]_vars

\* C38: when DatabasesPool.database yields a handle to its caller, popped
\* from the idle queue or newly built, with or without a reopen, the handle
\* is not marked closed.
YieldedHandleOpen ==
    [][\A c \in DOMAIN callers :
          (callers[c].pc # "body" /\ callers'[c].pc = "body")
              => ~handles'[callers'[c].database].closed]_vars

\* A handle popped from the idle queue is in the hands of its caller after
\* a reap has closed another handle.
YieldedPoppedAfterReap ==
    \E c \in DOMAIN callers :
        /\ callers[c].pc = "body"
        /\ ~callers[c].new
        /\ poolTime > 0
        /\ \E h \in DOMAIN handles : handles[h].closed

\* The positions of log holding an engine call of phase ph with result res.
CallsAt(log, ph, res) ==
    {i \in DOMAIN log : /\ log[i].ev = "call"
                        /\ log[i].phase = ph
                        /\ log[i].result = res}

\* C39: a replace or drop with commit=True that returns after k transient
\* failures of its engine call (k <= 4, each followed by a reopen) has had
\* one successful engine call, at depth k, and one commit() issued (a
\* commit call at depth 0), right after that successful call; the
\* operation ends with a commit call that returned.
CommitOnceAfterSuccess ==
    (/\ dbPc = "done"
     /\ dbOp \in CommittingOps
     /\ dbCommit
     /\ dbOutcome = "returned")
        => LET k == Cardinality(CallsAt(dbLog, "main", "transient"))
               done == CallsAt(dbLog, "main", "ok")
               issued == {i \in DOMAIN dbLog :
                            /\ dbLog[i].ev = "call"
                            /\ dbLog[i].phase = "commit"
                            /\ dbLog[i].t = 0}
           IN  /\ k <= 4
               /\ Cardinality({i \in DOMAIN dbLog :
                     dbLog[i].ev = "reopened" /\ dbLog[i].phase = "main"}) = k
               /\ Cardinality(done) = 1
               /\ \A i \in done : dbLog[i].t = k
               /\ Cardinality(issued) = 1
               /\ \A i \in issued : i - 1 \in done
               /\ Len(dbLog) \in CallsAt(dbLog, "commit", "ok")
               /\ Cardinality(CallsAt(dbLog, "commit", "ok")) = 1

\* A drop with commit=True has returned after four transient failures, the
\* last ones followed by a rebuild of the database.
CommittedAfterFourFailures ==
    /\ dbPc = "done"
    /\ dbOp = "drop"
    /\ dbCommit
    /\ dbOutcome = "returned"
    /\ Cardinality(CallsAt(dbLog, "main", "transient")) = 4
    /\ \E i \in DOMAIN dbLog : dbLog[i].ev = "reopened" /\ dbLog[i].full

\* C40: an IOError, RuntimeError or socket.error of a lightweight handler
\* is recorded as the command's error and the receive loop goes on; any
\* other exception of the handler, and an error reading the opcode, end
\* the loop with the socket closed; a loop that has ended stays ended.
LightErrorsKeepLoop ==
    [][/\ \A exc \in {"none", "IOError", "RuntimeError", "socket.error",
                      "Exception"} :
             DispatchLight(exc)
                 => /\ cmds'[cmd_id'].outcome =
                          IF exc = "none" THEN "executed"
                          ELSE IF exc = "Exception" THEN "raised"
                          ELSE "error"
                    /\ connClosed' = (exc = "Exception")
       /\ ReadError => connClosed'
       /\ connClosed => connClosed'
       /\ (connClosed' /\ ~connClosed)
             => \/ cmds' = cmds
                \/ cmds'[cmd_id'].outcome = "raised"]_vars

\* A lightweight handler's error was recorded, the loop dispatched another
\* lightweight command, and that one ended the loop.
LoopEndedAfterRecordedError ==
    /\ connClosed
    /\ \E i \in DOMAIN cmds, j \in DOMAIN cmds :
          /\ i < j
          /\ ~cmds[i].threaded /\ cmds[i].outcome = "error"
          /\ ~cmds[j].threaded /\ cmds[j].outcome = "raised"

====
